---- MODULE Spec2Model ----
(***************************************************************************)
(* A model of the Presence & Distance Monitoring Engine of                 *)
(* complete-network-monitor.py: class CompleteNetworkMonitor (scan,        *)
(* add_alert, log_attendance, start_monitoring, stop_monitoring, the       *)
(* distance estimator) and the Flask handlers that drive it.               *)
(*                                                                         *)
(* Threads.  scan() runs on threads: one per POST /scan request and one    *)
(* per start_monitoring() call (monitor_loop).  A thread's position in     *)
(* scan() and add_alert() is pc[t]; statements of scan() that touch shared *)
(* state are separate steps, so every interleaving that CPython's thread   *)
(* switching allows between them is a behaviour of the model.  The Flask   *)
(* handlers that only assign a few fields and save are one step each.      *)
(*                                                                         *)
(* Scaling.  Distances are integers in tenths of a meter (round(d, 1) of   *)
(* the source times ten).  The sweep range(1, 255) is 1..NHosts and the    *)
(* ledger capacity 1000 is AlertCap.                                       *)
(***************************************************************************)
EXTENDS Integers, Sequences, FiniteSets, TLC

\* ------------------------------------------------------------ bounds
NHosts == 2        \* addresses swept per cycle (254 in the source)
NThreads == 2      \* threads that exist at the same time
AlertCap == 2      \* entries kept by add_alert (1000 in the source)
MaxScans == 2      \* scan() calls per behaviour of Spec
MaxCmds == 3       \* control commands per behaviour of Spec
LedgerScans == 2   \* scan() calls per behaviour of SpecLedger
LedgerCmds == 2    \* control commands per behaviour of SpecLedger
PresenceScans == 2 \* scan() calls per behaviour of SpecPresence
PresenceCmds == 2  \* control commands per behaviour of SpecPresence
DistanceScans == 2 \* scan() calls per behaviour of SpecDistance
DistanceCmds == 2  \* control commands per behaviour of SpecDistance
MaxDistance == 600 \* largest distance given to get_zone, in tenths of a meter
CommandScans == 2  \* scan() calls per behaviour of SpecCommands
CommandCmds == 2   \* control commands per behaviour of SpecCommands
FaultScans == 2    \* scan() calls per behaviour of SpecFaults
FaultCmds == 2     \* control commands per behaviour of SpecFaults
SnapshotScans == 2 \* scan() calls per behaviour of SpecSnapshot
SnapshotCmds == 3  \* control commands per behaviour of SpecSnapshot
PersistScans == 2  \* scan() calls per behaviour of SpecPersist
PersistCmds == 2   \* control commands per behaviour of SpecPersist
WriterScans == 2   \* scan() calls per behaviour of SpecWriters
WriterCmds == 2    \* control commands per behaviour of SpecWriters
ExportScans == 2   \* scan() calls per behaviour of SpecExport
ExportCmds == 3    \* control commands per behaviour of SpecExport
ZoneScans == 2     \* scan() calls per behaviour of SpecZones
ZoneCmds == 2      \* control commands per behaviour of SpecZones
IdentityScans == 2 \* scan() calls per behaviour of SpecIdentity
IdentityCmds == 2  \* control commands per behaviour of SpecIdentity
FrameScans == 2    \* scan() calls per behaviour of SpecFrame
FrameCmds == 2     \* control commands per behaviour of SpecFrame
MaxLatency == 600  \* largest average latency of SpecProbe, tenths of a ms
ToggleScans == 2   \* scan() calls per behaviour of SpecToggle
ToggleCmds == 3    \* control commands per behaviour of SpecToggle
AlternateScans == 4  \* scan() calls per behaviour of SpecAlternate
AlternateCmds == 1   \* control commands per behaviour of SpecAlternate
ClearScans == 3    \* scan() calls per behaviour of SpecClear
ClearCmds == 3     \* control commands per behaviour of SpecClear
ModeScans == 2     \* scan() calls per behaviour of SpecMode
ModeCmds == 1      \* control commands per behaviour of SpecMode

Hosts == 1..NHosts
Threads == 1..NThreads

\* ------------------------------------------------------------ values
NoDistance == -1   \* estimated_distance absent / None
NoRssi == 0        \* rssi absent / None (calculate_distance treats 0 alike)

AlertTypes == {"arrival", "departure", "distance"}

\* The six values ping_with_stats returns.
RssiBuckets == {-40, -50, -60, -70, -80, -90}

\* monitor.calibration: referenceRSSI, pathLossExponent (times 10^4, so
\* that 1.9205 is an integer) and distanceThreshold (meters).
DefaultCalibration == [ref |-> -40, ple |-> 20000, thr |-> 50]

\* The calibrations POST /update_calibration sets in the model: the
\* default, pathLossExponent 1.9205 and (referenceRSSI -70,
\* pathLossExponent 1.0).
CalInputs2 == [ref |-> -40, ple |-> 19205, thr |-> 50]

CalInputs ==
    {DefaultCalibration, CalInputs2, [ref |-> -70, ple |-> 10000, thr |-> 50]}

\* ------------------------------------------------- distance estimator

\* ping_with_stats: the bucket of an average latency.  lat is in tenths of
\* a millisecond; NoSample is a failed, timed out or unparsable probe.
NoSample == -1

\* The samples the probes of the model return: 1.5 ms, 9.9 ms, 60 ms, none.
LatencySamples == {15, 99, 600, NoSample}

LatencyToRssi(lat) ==
    IF lat = NoSample THEN -70
    ELSE IF lat < 20 THEN -40
    ELSE IF lat < 50 THEN -50
    ELSE IF lat < 100 THEN -60
    ELSE IF lat < 200 THEN -70
    ELSE IF lat < 500 THEN -80
    ELSE -90

\* round(math.pow(10, (ref - rssi) / (10 * ple)), 1) in tenths of a meter,
\* tabulated (evaluated with CPython floats) for the calibrations and
\* signal strengths of the model.
Pow10Tenths(ref, ple, rssi) ==
    CASE ref = -40 /\ ple = 20000 ->
           (CASE rssi = -40 -> 10 [] rssi = -50 -> 32 [] rssi = -60 -> 100
              [] rssi = -70 -> 316 [] rssi = -80 -> 1000 [] rssi = -90 -> 3162)
      [] ref = -40 /\ ple = 19205 ->
           (CASE rssi = -40 -> 10 [] rssi = -50 -> 33 [] rssi = -60 -> 110
              [] rssi = -70 -> 365 [] rssi = -80 -> 1210 [] rssi = -90 -> 4013)
      [] ref = -70 /\ ple = 10000 ->
           (CASE rssi = -40 -> 0 [] rssi = -50 -> 0 [] rssi = -60 -> 1
              [] rssi = -70 -> 10 [] rssi = -80 -> 100 [] rssi = -90 -> 1000)

\* A field that a POST /update_calibration request lacks, and one whose
\* value is not a number (a JSON string).
Missing == -1000
NonNumeric == -1001

\* The requests POST /update_calibration gets that are not three numbers
\* with a non-zero exponent: an empty object, a string for referenceRSSI,
\* and pathLossExponent = 0.
BadCalInputs ==
    {[ref |-> Missing, ple |-> Missing, thr |-> Missing],
     [ref |-> NonNumeric, ple |-> 20000, thr |-> 50],
     [ref |-> -40, ple |-> 0, thr |-> 50]}

\* data.get(key, default) of lines 1554-1556.
Get(value, default) == IF value = Missing THEN default ELSE value

\* calculate_distance: None for a missing or zero rssi, else the formula.
\* With pathLossExponent = 0 the division raises ZeroDivisionError, and
\* with a string in the calibration the arithmetic raises TypeError: the
\* result is then Raises and the calling thread dies.
Raises == -2

\* The estimate rounded to whole meters, round(distance), instead of to
\* one decimal.
calculate_distanceWholeMeters(cal, rssi) ==
    IF rssi = NoRssi THEN NoDistance
    ELSE IF cal.ple = 0 \/ NonNumeric \in {cal.ref, cal.ple} THEN Raises
    ELSE ((Pow10Tenths(cal.ref, cal.ple, rssi) + 5) \div 10) * 10

calculate_distance(cal, rssi) ==
    IF rssi = NoRssi THEN NoDistance
    ELSE IF cal.ple = 0 \/ NonNumeric \in {cal.ref, cal.ple} THEN Raises
    ELSE Pow10Tenths(cal.ref, cal.ple, rssi)

\* Python truthiness of a distance: None and 0.0 are both falsy.
Truthy(distance) == distance # NoDistance /\ distance # 0

get_zone(distance) ==
    IF ~Truthy(distance) THEN "unknown"
    ELSE IF distance < 100 THEN "on-site"
    ELSE IF distance < 300 THEN "near-site"
    ELSE IF distance < 500 THEN "leaving"
    ELSE "away"

Abs(x) == IF x < 0 THEN -x ELSE x

\* ------------------------------------------------------------- state

VARIABLES
    devices,        \* self.devices: one record per address (known = in the dict)
    devOrder,       \* the dict's insertion order, as items() iterates it
    scanning,       \* self.scanning, the reentrancy flag
    monitoring,     \* self.monitoring
    distance_mode,  \* self.distance_mode
    calibration,    \* self.calibration
    alerts,         \* self.alerts, newest first
    attendance,     \* the rows of attendance_log.csv, oldest first
    save_file,      \* device_monitor.json as last written
    alerts_file,    \* attendance_alerts.json as last written
    kind,           \* per thread: "none", "http" (POST /scan) or "loop" (monitor_loop)
    pc,             \* per thread: its position in monitor_loop / scan / add_alert
    loc,            \* per thread: the local variables of scan and add_alert
    hist,           \* per thread: what its current cycle has done (history)
    nRecords,       \* add_alert calls made so far (history; the alert's timestamp)
    present,        \* environment: the addresses that have a host to answer
    scansLeft,      \* scan() calls the behaviour may still make (bound)
    cmdsLeft,       \* control commands the behaviour may still make (bound)
    call,           \* the last request served or function applied, with its inputs
    result,         \* the response to it / the value it returned
    export          \* the export_attendance call in progress, if any

vars == <<devices, devOrder, scanning, monitoring, distance_mode, calibration,
          alerts, attendance, save_file, alerts_file, kind, pc, loc, hist,
          nRecords, present, scansLeft, cmdsLeft, call, result, export>>

shared == <<devices, devOrder, scanning, monitoring, distance_mode,
            calibration, alerts, attendance, save_file, alerts_file>>

\* A device record without a 'custom_name' key (update_device adds it).
NoName == "<hostname>"

\* Timestamps.  datetime.now() is the number of requests (scan() calls
\* and control commands) made since the process started, counted from
\* Epoch: two readings with no request between them are the same time.
\* Earlier is a time of an earlier run of the program, NoTime a
\* 'first_seen' or 'last_seen' key that is absent.
NoTime == -1
Earlier == 0
Epoch == 100

now == Epoch - scansLeft - cmdsLeft

\* mac, hostname and vendor of a device, as one value: what get_mac,
\* get_hostname and get_vendor found for the address, or nothing.
NoMac == 0
MacOf(ip) == ip

\* A key that is not in self.devices.
UnknownDevice ==
    [known |-> FALSE, online |-> FALSE, monitored |-> FALSE,
     rssi |-> NoRssi, dist |-> NoDistance,
     custom_name |-> NoName, device_type |-> "employee",
     ip |-> 0, mac |-> NoMac, first_seen |-> NoTime, last_seen |-> NoTime]

\* The record scan() creates for a new address (lines 1366-1374), after
\* lines 1376-1377 have set online and last_seen.
NewDevice(ip, mac, time) ==
    [known |-> TRUE, online |-> TRUE, monitored |-> FALSE,
     rssi |-> NoRssi, dist |-> NoDistance,
     custom_name |-> NoName, device_type |-> "employee",
     ip |-> ip, mac |-> mac, first_seen |-> time, last_seen |-> time]

\* device.get('custom_name', device.get('hostname', 'Unknown')), line 1434.
DisplayName(device) ==
    IF device.custom_name = NoName THEN "hostname" ELSE device.custom_name

\* The seconds of a day, and the day on whose last second the first alert
\* of a behaviour is recorded.
DaySeconds == 86400
FirstDay == 1

\* The local time, in seconds, at which the n-th add_alert call reads the
\* clock (line 1430): the calls fall on the last second of a day and on
\* the first second of the next one, alternately.
RecordTime(n) ==
    (FirstDay + 1 + (n - 1) \div 2) * DaySeconds - (n % 2)

\* datetime.isoformat() of a local time: the calendar date and the time
\* of day, as <<day, hour, minute, second>>.
isoformat(time) ==
    <<time \div DaySeconds, (time % DaySeconds) \div 3600,
      (time % 3600) \div 60, time % 60>>

\* datetime.fromisoformat(timestamp).strftime('%Y-%m-%d'), line 1590.
alert_date(timestamp) == timestamp[1]

\* An alert: id is the number of the add_alert call that recorded it and
\* timestamp the time the call read; device_name and device_type are
\* copied from the device.  message is <<>> for an alert without the key
\* 'message' (lines 1438-1439).
NoAlert ==
    [id |-> 0, timestamp |-> <<0, 0, 0, 0>>, ip |-> 0, type |-> "none",
     device_name |-> "none", device_type |-> "none", message |-> <<>>]

\* No export_attendance call is in progress.  Of a call in progress: date
\* is the requested date, list the list object that line 1589 iterates,
\* attached whether self.alerts is still that object, k the index of the
\* iterator (from 1), rows the rows written so far and first (history)
\* the alert list when the call began.
NoExport ==
    [pc |-> "none", date |-> 0, list |-> <<>>, attached |-> FALSE, k |-> 0,
     rows |-> <<>>, first |-> <<>>]

InitLoc ==
    [i |-> 0, previous_online |-> [h \in Hosts |-> FALSE],
     previous_distances |-> [h \in Hosts |-> NoDistance],
     j |-> 0, psmLen |-> 0, alert |-> NoAlert, ret |-> "none",
     monChk |-> FALSE, buf |-> <<>>, distance |-> NoDistance,
     slice |-> <<>>]

\* emitted: the (ip, type) of the alerts the cycle has recorded; reach: the
\* addresses that answered its probe; overlap: another thread was inside
\* a cycle during it; evaluated: the devices that were monitored when the
\* presence pass reached them; estimated: the devices whose distance it
\* estimated while monitoring was set; last: how the thread's previous
\* scan() call ended; probed: how many times the cycle has probed each
\* address; stopped: a stop_monitoring call found the thread alive in
\* monitor_loop; stopAt: the part of the cycle ("sweep" or "pass", the
\* presence pass) in which a stop_monitoring call found it; beeps: the
\* addresses for which the cycle has played the low long beep.
InitHist ==
    [emitted |-> <<>>, reach |-> {}, overlap |-> FALSE, evaluated |-> {},
     estimated |-> {}, last |-> "none", probed |-> [h \in Hosts |-> 0],
     stopped |-> FALSE, stopAt |-> "none", beeps |-> {}]

\* The insertion order of a loaded registry: json.load keeps the file's
\* order, which is ascending for the registries of the model.
RECURSIVE Ascending(_, _)
Ascending(S, from) ==
    IF from > NHosts THEN <<>>
    ELSE IF from \in S THEN <<from>> \o Ascending(S, from + 1)
    ELSE Ascending(S, from + 1)

\* __init__ followed by load_data, in an environment where the addresses
\* of `hosts` answer probes, with a registry of `registries` on disk.
InitWith(registries, hosts, scans, cmds) ==
    /\ devices \in registries
    /\ devOrder = Ascending({h \in Hosts : devices[h].known}, 1)
    /\ scanning = FALSE
    /\ monitoring = FALSE
    /\ distance_mode = FALSE
    /\ calibration = DefaultCalibration
    /\ alerts = <<>>
    /\ attendance = <<>>
    /\ save_file = <<devices, devOrder>>
    /\ alerts_file = alerts
    /\ kind = [t \in Threads |-> "none"]
    /\ pc = [t \in Threads |-> "idle"]
    /\ loc = [t \in Threads |-> InitLoc]
    /\ hist = [t \in Threads |-> InitHist]
    /\ nRecords = 0
    /\ present = hosts
    /\ scansLeft = scans
    /\ cmdsLeft = cmds
    /\ call = <<"none">>
    /\ result = "none"
    /\ export = NoExport

\* ------------------------------------------------------------ helpers

\* save_data: both files are rewritten from memory.
save_data ==
    /\ save_file' = <<devices', devOrder'>>
    /\ alerts_file' = alerts'

\* The positions between passing the guard of line 1334 and the reset of
\* line 1423.
CyclePcs ==
    {"set", "begin", "ping", "create", "dist", "sound", "post", "psm",
     "finish", "aa_insert", "aa_trunc", "aa_assign", "aa_log", "aa_save"}

InCycle(t) == pc[t] \in CyclePcs

\* The positions of the sweep (lines 1337-1402), of the presence pass and
\* the reset (lines 1405-1423), and of add_alert, which both call.
SweepPcs == {"set", "begin", "ping", "create", "dist", "sound"}
PassPcs == {"post", "psm", "finish"}
AddAlertPcs == {"aa_insert", "aa_trunc", "aa_assign", "aa_log", "aa_save"}

\* Where a thread goes when scan() returns: an HTTP-spawned thread ends,
\* monitor_loop goes to its time.sleep(30).
\* `how` records (history) whether the call ran a cycle or was dropped.
Returned(t, how) ==
    /\ pc' = [pc EXCEPT ![t] = IF kind[t] = "loop" THEN "sleep" ELSE "idle"]
    /\ kind' = [kind EXCEPT ![t] = IF kind[t] = "loop" THEN "loop" ELSE "none"]
    /\ loc' = [loc EXCEPT ![t] = InitLoc]
    /\ hist' = [hist EXCEPT ![t] =
                  [InitHist EXCEPT !.last = how,
                                   !.stopped = hist[t].stopped /\ kind[t] = "loop"]]

\* The thread dies of an uncaught exception: nothing after the raising
\* statement runs, in scan() or in monitor_loop.
Dies(t) ==
    /\ pc' = [pc EXCEPT ![t] = "dead"]
    /\ UNCHANGED <<kind, loc, hist>>

\* The position after host i of the sweep: the next host, or line 1405.
AfterHost(t) ==
    IF loc[t].i < NHosts
    THEN /\ pc' = [pc EXCEPT ![t] = "ping"]
         /\ loc' = [loc EXCEPT ![t].i = loc[t].i + 1]
    ELSE /\ pc' = [pc EXCEPT ![t] = "post"]
         /\ loc' = loc

\* ------------------------------------------------------------- scan()

\* A guard without its return: the call goes on into the cycle.
ScanDroppedRunsAnyway(t) ==
    /\ pc[t] = "guard"
    /\ scanning
    /\ pc' = [pc EXCEPT ![t] = "set"]
    /\ UNCHANGED <<shared, kind, loc, hist, scansLeft, nRecords, cmdsLeft,
                   present, call, result, export>>

\* Lines 1334-1335 with the flag set: scan() returns at once.
ScanDropped(t) ==
    /\ pc[t] = "guard"
    /\ scanning
    /\ Returned(t, "dropped")
    /\ UNCHANGED <<shared, scansLeft, nRecords, cmdsLeft, present, call, result, export>>

\* Line 1334 with the flag clear: the thread goes on to line 1337.
ScanAdmitted(t) ==
    /\ pc[t] = "guard"
    /\ ~scanning
    /\ pc' = [pc EXCEPT ![t] = "set"]
    /\ hist' = [u \in Threads |->
                  IF u = t
                  THEN [InitHist EXCEPT
                          !.overlap = \E v \in Threads \ {t} : InCycle(v),
                          !.stopped = hist[t].stopped]
                  ELSE IF InCycle(u) THEN [hist[u] EXCEPT !.overlap = TRUE]
                  ELSE hist[u]]
    /\ UNCHANGED <<shared, kind, loc, scansLeft, nRecords, cmdsLeft, present, call, result, export>>

\* Line 1337.
ScanSet(t) ==
    /\ pc[t] = "set"
    /\ scanning' = TRUE
    /\ pc' = [pc EXCEPT ![t] = "begin"]
    /\ UNCHANGED <<devices, devOrder, monitoring, distance_mode, calibration,
                   alerts, attendance, save_file, alerts_file, kind, loc, hist,
                   scansLeft, nRecords, cmdsLeft, present, call, result, export>>

\* The snapshots without the reset: a device stays online until a probe
\* says otherwise.
ScanBeginKeepsOnline(t) ==
    /\ pc[t] = "begin"
    /\ loc' = [loc EXCEPT
                 ![t].previous_online = [h \in Hosts |-> devices[h].online],
                 ![t].previous_distances = [h \in Hosts |-> devices[h].dist],
                 ![t].i = 1]
    /\ pc' = [pc EXCEPT ![t] = "ping"]
    /\ UNCHANGED <<shared, kind, hist, scansLeft, nRecords, cmdsLeft, present,
                   call, result, export>>

\* A cycle that begins by purging the devices that were offline.
ScanBeginForgets(t) ==
    /\ pc[t] = "begin"
    /\ loc' = [loc EXCEPT
                 ![t].previous_online = [h \in Hosts |-> devices[h].online],
                 ![t].previous_distances = [h \in Hosts |-> devices[h].dist],
                 ![t].i = 1]
    /\ devices' = [h \in Hosts |->
                     IF devices[h].online
                     THEN [devices[h] EXCEPT !.online = FALSE]
                     ELSE UnknownDevice]
    /\ devOrder' = SelectSeq(devOrder, LAMBDA h : devices[h].online)
    /\ pc' = [pc EXCEPT ![t] = "ping"]
    /\ UNCHANGED <<scanning, monitoring, distance_mode, calibration,
                   alerts, attendance, save_file, alerts_file, kind, hist,
                   scansLeft, nRecords, cmdsLeft, present, call, result, export>>

\* The online snapshot taken after the flags are cleared: every device is
\* offline in it.
ScanBeginSnapshotAfterReset(t) ==
    /\ pc[t] = "begin"
    /\ loc' = [loc EXCEPT
                 ![t].previous_online = [h \in Hosts |-> FALSE],
                 ![t].previous_distances = [h \in Hosts |-> devices[h].dist],
                 ![t].i = 1]
    /\ devices' = [h \in Hosts |-> [devices[h] EXCEPT !.online = FALSE]]
    /\ pc' = [pc EXCEPT ![t] = "ping"]
    /\ UNCHANGED <<devOrder, scanning, monitoring, distance_mode, calibration,
                   alerts, attendance, save_file, alerts_file, kind, hist,
                   scansLeft, nRecords, cmdsLeft, present, call, result, export>>

\* Lines 1338-1350: the two snapshots, then every online flag is cleared.
ScanBegin(t) ==
    /\ pc[t] = "begin"
    /\ loc' = [loc EXCEPT
                 ![t].previous_online = [h \in Hosts |-> devices[h].online],
                 ![t].previous_distances = [h \in Hosts |-> devices[h].dist],
                 ![t].i = 1]
    /\ devices' = [h \in Hosts |-> [devices[h] EXCEPT !.online = FALSE]]
    /\ pc' = [pc EXCEPT ![t] = "ping"]
    /\ UNCHANGED <<devOrder, scanning, monitoring, distance_mode, calibration,
                   alerts, attendance, save_file, alerts_file, kind, hist,
                   scansLeft, nRecords, cmdsLeft, present, call, result, export>>

\* A probe whose failure ends the sweep: the cycle goes to its end.
ScanPingMissAborts(t) ==
    /\ pc[t] = "ping"
    /\ hist' = [hist EXCEPT ![t].probed[loc[t].i] = @ + 1]
    /\ pc' = [pc EXCEPT ![t] = "finish"]
    /\ UNCHANGED <<shared, kind, loc, scansLeft, nRecords, cmdsLeft, present,
                   call, result, export>>

\* A miss that drops the estimate of the device: a host that does not
\* answer has no signal strength and no distance.
ScanPingMissForgets(t) ==
    /\ pc[t] = "ping"
    /\ hist' = [hist EXCEPT ![t].probed[loc[t].i] = @ + 1]
    /\ devices' = [devices EXCEPT ![loc[t].i].rssi = NoRssi,
                                  ![loc[t].i].dist = NoDistance]
    /\ AfterHost(t)
    /\ UNCHANGED <<devOrder, scanning, monitoring, distance_mode, calibration,
                   alerts, attendance, save_file, alerts_file, kind, scansLeft,
                   nRecords, cmdsLeft, present, call, result, export>>

\* Lines 1355-1357 for a host that does not answer (ping returns False,
\* also on an error or a timeout).
ScanPingMiss(t) ==
    /\ pc[t] = "ping"
    /\ hist' = [hist EXCEPT ![t].probed[loc[t].i] = @ + 1]
    /\ AfterHost(t)
    /\ UNCHANGED <<shared, kind, scansLeft, nRecords, cmdsLeft, present, call, result, export>>

\* Lines 1355-1380 for a host that answers: a new address gets its record
\* (get_mac finds the MAC of the host), the device is marked online and
\* seen now, and distance_mode decides what follows.
ScanPingHit(t) ==
    /\ pc[t] = "ping"
    /\ loc[t].i \in present
    /\ LET ip == loc[t].i IN
       /\ devices' = [devices EXCEPT ![ip] =
                        IF devices[ip].known
                        THEN [devices[ip] EXCEPT !.online = TRUE,
                                                 !.last_seen = now]
                        ELSE NewDevice(ip, MacOf(ip), now)]
       /\ devOrder' = IF devices[ip].known THEN devOrder ELSE Append(devOrder, ip)
       /\ hist' = [hist EXCEPT ![t].reach = hist[t].reach \cup {ip},
                                ![t].probed[ip] = @ + 1]
    /\ IF distance_mode
       THEN pc' = [pc EXCEPT ![t] = "dist"] /\ loc' = loc
       ELSE AfterHost(t)
    /\ UNCHANGED <<scanning, monitoring, distance_mode, calibration, alerts,
                   attendance, save_file, alerts_file, kind, scansLeft, nRecords,
                   cmdsLeft, present, call, result, export>>

\* scan() at the grain of its statements for a new address.  Between the
\* test of line 1361 and the assignment of line 1366 the thread runs
\* get_mac and get_hostname, which wait for a ping, for arp and for the
\* resolver; other threads run in between.

\* Lines 1355-1377 for a known address that answers.
ScanPingKnown(t) ==
    /\ pc[t] = "ping"
    /\ devices[loc[t].i].known
    /\ ScanPingHit(t)

\* Lines 1355-1364 for an address that answers and is not in self.devices
\* at line 1361: the thread goes on to look up its identity.
ScanPingNew(t) ==
    /\ pc[t] = "ping"
    /\ loc[t].i \in present
    /\ ~devices[loc[t].i].known
    /\ hist' = [hist EXCEPT ![t].reach = hist[t].reach \cup {loc[t].i},
                            ![t].probed[loc[t].i] = @ + 1]
    /\ pc' = [pc EXCEPT ![t] = "create"]
    /\ UNCHANGED <<shared, kind, loc, scansLeft, nRecords, cmdsLeft, present,
                   call, result, export>>

\* Lines 1366-1380: the new record is assigned to self.devices[ip],
\* whatever is there by now, and marked online and seen.  mac is what
\* get_mac has found.
ScanCreate(t, mac) ==
    /\ pc[t] = "create"
    /\ LET ip == loc[t].i IN
       /\ devices' = [devices EXCEPT ![ip] = NewDevice(ip, mac, now)]
       /\ devOrder' = IF devices[ip].known THEN devOrder ELSE Append(devOrder, ip)
    /\ IF distance_mode
       THEN pc' = [pc EXCEPT ![t] = "dist"] /\ loc' = loc
       ELSE AfterHost(t)
    /\ UNCHANGED <<scanning, monitoring, distance_mode, calibration, alerts,
                   attendance, save_file, alerts_file, kind, hist, scansLeft,
                   nRecords, cmdsLeft, present, call, result, export>>

\* The condition without its test of the previous estimate: a first
\* estimate counts as a change from nothing.
DistanceAlertDueFromNothing(mon, prev, distance) ==
    /\ mon
    /\ Truthy(distance)
    /\ Abs(distance - prev) > 100
    /\ get_zone(prev) # get_zone(distance)

\* The condition of lines 1388-1394 under which a distance alert is raised.
DistanceAlertDue(mon, prev, distance) ==
    /\ mon
    /\ Truthy(prev)
    /\ Truthy(distance)
    /\ Abs(distance - prev) > 100
    /\ get_zone(prev) # get_zone(distance)

\* A message that names the zones only.
MovedMessageZonesOnly(device, prev, distance) ==
    <<DisplayName(device), "moved from", get_zone(prev), "to",
      get_zone(distance)>>

\* Line 1396, the message of a distance alert: the name, the two zones
\* and int() of the two distances (whole meters).
MovedMessage(device, prev, distance) ==
    <<DisplayName(device), "moved from", get_zone(prev), "to",
      get_zone(distance), prev \div 10, "m", distance \div 10, "m">>

\* Lines 1381-1397: the latency sample, the estimate, the two stores and
\* the check for a zone change.  lat is the sample the probe returns.
ScanDistance(t, lat) ==
    /\ pc[t] = "dist"
    /\ LET ip == loc[t].i
           rssi == LatencyToRssi(lat)
           distance == calculate_distance(calibration, rssi)
       IN IF distance = Raises
          THEN /\ Dies(t)
               /\ UNCHANGED devices
          ELSE /\ devices' = [devices EXCEPT ![ip].rssi = rssi,
                                             ![ip].dist = distance]
               /\ kind' = kind
               /\ hist' = [hist EXCEPT ![t].estimated =
                             IF monitoring
                             THEN hist[t].estimated \cup {ip}
                             ELSE hist[t].estimated]
               /\ IF DistanceAlertDue(monitoring,
                                      loc[t].previous_distances[ip], distance)
                  THEN /\ pc' = [pc EXCEPT ![t] = "aa_insert"]
                       /\ loc' = [loc EXCEPT
                                    ![t].alert =
                                       [NoAlert EXCEPT
                                          !.ip = ip,
                                          !.type = "distance",
                                          !.message = MovedMessage(
                                             devices[ip],
                                             loc[t].previous_distances[ip],
                                             distance)],
                                    ![t].ret = "sound",
                                    ![t].distance = distance]
                  ELSE AfterHost(t)
    /\ UNCHANGED <<devOrder, scanning, monitoring, distance_mode, calibration,
                   alerts, attendance, save_file, alerts_file, scansLeft,
                   nRecords, cmdsLeft, present, call, result, export>>

\* Line 1401: the new distance (tenths of a meter) against
\* distanceThreshold (meters).
OverThreshold(distance, threshold) == distance > threshold * 10

\* Lines 1398-1402, after add_alert has returned: the low long beep,
\* play_alert_sound(300, 0.5), when the new distance is over the threshold
\* as the calibration has it now.  play_alert_sound changes no state,
\* whether the sound plays or fails.  A threshold that is not a number
\* makes the comparison raise TypeError.
ScanSound(t) ==
    /\ pc[t] = "sound"
    /\ IF calibration.thr = NonNumeric
       THEN Dies(t)
       ELSE /\ hist' = [hist EXCEPT ![t].beeps =
                          IF OverThreshold(loc[t].distance, calibration.thr)
                          THEN @ \cup {loc[t].i}
                          ELSE @]
            /\ kind' = kind
            /\ AfterHost(t)
    /\ UNCHANGED <<shared, scansLeft, nRecords, cmdsLeft, present, call, result, export>>

\* The presence pass run whether or not monitoring is set.
ScanPostAlways(t) ==
    /\ pc[t] = "post"
    /\ pc' = [pc EXCEPT ![t] = "psm"]
    /\ loc' = [loc EXCEPT ![t].j = 1, ![t].psmLen = Len(devOrder),
                          ![t].monChk = TRUE]
    /\ UNCHANGED <<shared, kind, hist, scansLeft, nRecords, cmdsLeft, present, call, result, export>>

\* Line 1405: the presence pass runs only when monitoring is set; line 1406
\* starts iterating self.devices.items().
ScanPost(t) ==
    /\ pc[t] = "post"
    /\ IF monitoring
       THEN /\ pc' = [pc EXCEPT ![t] = "psm"]
            /\ loc' = [loc EXCEPT ![t].j = 1, ![t].psmLen = Len(devOrder),
                                  ![t].monChk = TRUE]
       ELSE /\ pc' = [pc EXCEPT ![t] = "finish"]
            /\ loc' = loc
    /\ UNCHANGED <<shared, kind, hist, scansLeft, nRecords, cmdsLeft, present, call, result, export>>

\* A debounce: a device that stops answering is not reported.
PresenceWithoutDeparture(was_online, is_online) ==
    IF ~was_online /\ is_online THEN "arrival" ELSE "none"

\* The arrival test without its `not was_online`.
PresenceArrivalWhenOnline(was_online, is_online) ==
    IF was_online /\ ~is_online THEN "departure"
    ELSE IF is_online THEN "arrival"
    ELSE "none"

\* Lines 1408-1421: the alert, if any, that the previous and the current
\* online flag of a monitored device call for.
PresenceTransition(was_online, is_online) ==
    IF was_online /\ ~is_online THEN "departure"
    ELSE IF ~was_online /\ is_online THEN "arrival"
    ELSE "none"

\* Lines 1406-1421 for one device of the iteration.  A dict that has grown
\* since the iteration began makes the next step of the iteration raise
\* RuntimeError.
ScanPresence(t) ==
    /\ pc[t] = "psm"
    /\ IF Len(devOrder) # loc[t].psmLen
       THEN Dies(t)
       ELSE IF loc[t].j > loc[t].psmLen
       THEN /\ pc' = [pc EXCEPT ![t] = "finish"]
            /\ UNCHANGED <<kind, loc, hist>>
       ELSE LET ip == devOrder[loc[t].j]
                device == devices[ip]
                was_online == loc[t].previous_online[ip]
                is_online == device.online
                type == PresenceTransition(was_online, is_online)
            IN /\ hist' = [hist EXCEPT ![t].evaluated =
                             IF device.monitored
                             THEN hist[t].evaluated \cup {ip}
                             ELSE hist[t].evaluated]
               /\ kind' = kind
               /\ IF device.monitored /\ type # "none"
                  THEN /\ pc' = [pc EXCEPT ![t] = "aa_insert"]
                       /\ loc' = [loc EXCEPT
                                    ![t].alert = [NoAlert EXCEPT !.ip = ip,
                                                         !.type = type],
                                    ![t].ret = "psm",
                                    ![t].j = loc[t].j + 1]
                  ELSE /\ pc' = pc
                       /\ loc' = [loc EXCEPT ![t].j = loc[t].j + 1]
    /\ UNCHANGED <<shared, scansLeft, nRecords, cmdsLeft, present, call, result, export>>

\* Line 1423.
ScanFinish(t) ==
    /\ pc[t] = "finish"
    /\ scanning' = FALSE
    /\ pc' = [pc EXCEPT ![t] = "save"]
    /\ UNCHANGED <<devices, devOrder, monitoring, distance_mode, calibration,
                   alerts, attendance, save_file, alerts_file, kind, loc, hist,
                   scansLeft, nRecords, cmdsLeft, present, call, result, export>>

\* Lines 1424-1425, and the return of scan().
ScanSave(t) ==
    /\ pc[t] = "save"
    /\ UNCHANGED <<devices, devOrder, alerts>>
    /\ save_data
    /\ Returned(t, "ran")
    /\ UNCHANGED <<scanning, monitoring, distance_mode, calibration,
                   attendance, scansLeft, nRecords, cmdsLeft, present, call, result, export>>

\* save_data at the grain of its file object.  open(..., 'w') empties the
\* file; json.dump writes the text into the buffer of the file object, and
\* the text reaches the file, from its first byte on, when the with block
\* closes it.  Other threads run in between.

\* An emptied file, and a file whose text json.load cannot parse.
EmptyFile == <<>>
CorruptFile == <<"corrupt">>

\* The length of the JSON text of a registry, up to what is the same for
\* every device: true has 4 characters and false 5, and a 'custom_name'
\* key of an empty name adds a line of 23.
RECURSIVE TextLen(_, _)
TextLen(registry, order) ==
    IF order = <<>> THEN 0
    ELSE LET device == registry[Head(order)] IN
         200 + (IF device.online THEN 4 ELSE 5)
             + (IF device.monitored THEN 4 ELSE 5)
             + (IF device.custom_name = NoName THEN 0 ELSE 23)
             + TextLen(registry, Tail(order))

\* What the file holds after `text` is written from its first byte over
\* `file`: the text, if the file is empty or its text is not longer;
\* else the text followed by the rest of the longer one.
WrittenOver(text, file) ==
    IF file = EmptyFile THEN text
    ELSE IF file = CorruptFile THEN CorruptFile
    ELSE IF TextLen(text[1], text[2]) >= TextLen(file[1], file[2]) THEN text
    ELSE CorruptFile

\* Lines 1153-1154 up to the end of json.dump: the file is empty and the
\* registry as it is now is in the buffer.
ScanSaveDump(t) ==
    /\ pc[t] = "save"
    /\ save_file' = EmptyFile
    /\ loc' = [loc EXCEPT ![t].buf = <<devices, devOrder>>]
    /\ pc' = [pc EXCEPT ![t] = "save_close"]
    /\ UNCHANGED <<devices, devOrder, scanning, monitoring, distance_mode,
                   calibration, alerts, attendance, alerts_file, kind, hist,
                   scansLeft, nRecords, cmdsLeft, present, call, result, export>>

\* The end of the with block of line 1153: the buffer is written to the
\* file.  Lines 1156-1157 and the return of scan() follow.
ScanSaveClose(t) ==
    /\ pc[t] = "save_close"
    /\ save_file' = WrittenOver(loc[t].buf, save_file)
    /\ alerts_file' = alerts
    /\ Returned(t, "ran")
    /\ UNCHANGED <<devices, devOrder, alerts, scanning, monitoring,
                   distance_mode, calibration, attendance, scansLeft, nRecords,
                   cmdsLeft, present, call, result, export>>

\* -------------------------------------------------------- add_alert()

\* The list that an export_attendance call iterates is the object that
\* self.alerts names: what is inserted into self.alerts is inserted into it.
Iterated == export.pc = "iter" /\ export.attached

\* self.alerts is bound to a new list object (lines 1444 and 1572): a
\* running iteration goes on over the object it began with.
Rebound ==
    export' = IF export.pc = "iter"
              THEN [export EXCEPT !.attached = FALSE]
              ELSE export

\* self.alerts[-1000:], the slice from the wrong end.
TruncatedKeepsOldest(list) ==
    IF Len(list) > AlertCap
    THEN SubSeq(list, Len(list) - AlertCap + 1, Len(list))
    ELSE list

\* self.alerts[:1000]
Truncated(list) ==
    IF Len(list) > AlertCap THEN SubSeq(list, 1, AlertCap) ELSE list

\* self.alerts.append(alert): the alert goes to the end of the list.
AddAlertAppends(t) ==
    /\ pc[t] = "aa_insert"
    /\ LET device == devices[loc[t].alert.ip]
           alert == [loc[t].alert EXCEPT
                       !.id = nRecords + 1,
                       !.timestamp = isoformat(RecordTime(nRecords + 1)),
                       !.ip = device.ip,
                       !.device_name = DisplayName(device),
                       !.device_type = device.device_type] IN
       /\ alerts' = Append(alerts, alert)
       /\ export' = IF Iterated
                    THEN [export EXCEPT !.list = Append(@, alert)]
                    ELSE export
       /\ loc' = [loc EXCEPT ![t].alert = alert]
       /\ hist' = [hist EXCEPT ![t].emitted =
                     Append(hist[t].emitted, <<alert.ip, alert.type>>)]
    /\ nRecords' = nRecords + 1
    /\ pc' = [pc EXCEPT ![t] = "aa_trunc"]
    /\ UNCHANGED <<devices, devOrder, scanning, monitoring, distance_mode,
                   calibration, attendance, save_file, alerts_file, kind,
                   scansLeft, cmdsLeft, present, call, result>>

\* Lines 1429-1441: the alert is built and inserted at the head.
AddAlertInsert(t) ==
    /\ pc[t] = "aa_insert"
    /\ LET device == devices[loc[t].alert.ip]
           alert == [loc[t].alert EXCEPT
                       !.id = nRecords + 1,
                       !.timestamp = isoformat(RecordTime(nRecords + 1)),
                       !.ip = device.ip,
                       !.device_name = DisplayName(device),
                       !.device_type = device.device_type] IN
       /\ alerts' = <<alert>> \o alerts
       /\ export' = IF Iterated
                    THEN [export EXCEPT !.list = <<alert>> \o @]
                    ELSE export
       /\ loc' = [loc EXCEPT ![t].alert = alert]
       /\ hist' = [hist EXCEPT ![t].emitted =
                     Append(hist[t].emitted, <<alert.ip, alert.type>>)]
    /\ nRecords' = nRecords + 1
    /\ pc' = [pc EXCEPT ![t] = "aa_trunc"]
    /\ UNCHANGED <<devices, devOrder, scanning, monitoring, distance_mode,
                   calibration, attendance, save_file, alerts_file, kind,
                   scansLeft, cmdsLeft, present, call, result>>

\* Line 1444.
AddAlertTruncate(t) ==
    /\ pc[t] = "aa_trunc"
    /\ alerts' = Truncated(alerts)
    /\ Rebound
    /\ pc' = [pc EXCEPT ![t] = "aa_log"]
    /\ UNCHANGED <<devices, devOrder, scanning, monitoring, distance_mode,
                   calibration, attendance, save_file, alerts_file, kind, loc,
                   hist, scansLeft, nRecords, cmdsLeft, present, call, result>>

\* Line 1444 at the grain of its evaluation: the right-hand side
\* self.alerts[:1000] is evaluated first, a new list made from the list
\* self.alerts names at that moment...
AddAlertSlice(t) ==
    /\ pc[t] = "aa_trunc"
    /\ loc' = [loc EXCEPT ![t].slice = Truncated(alerts)]
    /\ pc' = [pc EXCEPT ![t] = "aa_assign"]
    /\ UNCHANGED <<shared, kind, hist, scansLeft, nRecords, cmdsLeft, present,
                   call, result, export>>

\* ... and then the attribute is bound to it, whatever it names by then.
AddAlertAssign(t) ==
    /\ pc[t] = "aa_assign"
    /\ alerts' = loc[t].slice
    /\ Rebound
    /\ loc' = [loc EXCEPT ![t].slice = <<>>]
    /\ pc' = [pc EXCEPT ![t] = "aa_log"]
    /\ UNCHANGED <<devices, devOrder, scanning, monitoring, distance_mode,
                   calibration, attendance, save_file, alerts_file, kind,
                   hist, scansLeft, nRecords, cmdsLeft, present, call, result>>

\* The file opened with mode 'w': the row replaces the record.
log_attendanceRewrites(t) ==
    /\ pc[t] = "aa_log"
    /\ attendance' = <<loc[t].alert>>
    /\ pc' = [pc EXCEPT ![t] = "aa_save"]
    /\ UNCHANGED <<devices, devOrder, scanning, monitoring, distance_mode,
                   calibration, alerts, save_file, alerts_file, kind, loc,
                   hist, scansLeft, nRecords, cmdsLeft, present, call, result, export>>

\* Line 1447, log_attendance: one row is appended to the CSV file.
log_attendance(t) ==
    /\ pc[t] = "aa_log"
    /\ attendance' = Append(attendance, loc[t].alert)
    /\ pc' = [pc EXCEPT ![t] = "aa_save"]
    /\ UNCHANGED <<devices, devOrder, scanning, monitoring, distance_mode,
                   calibration, alerts, save_file, alerts_file, kind, loc,
                   hist, scansLeft, nRecords, cmdsLeft, present, call, result, export>>

\* Line 1449, and the return to the caller in scan().
AddAlertSave(t) ==
    /\ pc[t] = "aa_save"
    /\ UNCHANGED <<devices, devOrder, alerts>>
    /\ save_data
    /\ pc' = [pc EXCEPT ![t] = loc[t].ret]
    /\ loc' = [loc EXCEPT ![t].alert = NoAlert, ![t].ret = "none"]
    /\ UNCHANGED <<scanning, monitoring, distance_mode, calibration,
                   attendance, kind, hist, scansLeft, nRecords, cmdsLeft, present, call, result, export>>

\* ------------------------------------------------------ failed writes

\* open() or a write raises OSError in save_data or log_attendance, which
\* catch nothing, and neither do add_alert, scan and monitor_loop: the
\* thread dies where it is.
DiesOfWrite(t) ==
    /\ pc' = [pc EXCEPT ![t] = "dead"]
    /\ hist' = [hist EXCEPT ![t].last = "write_failed"]
    /\ UNCHANGED <<kind, loc>>

\* What a failed save_data leaves of a file: open(..., 'w') has failed and
\* the file is as it was, or it has emptied the file before the write
\* failed.
AfterFailedWrite(file) == {file, <<>>}

\* Line 1424 with a failing write.
ScanSaveFails(t) ==
    /\ pc[t] = "save"
    /\ save_file' \in AfterFailedWrite(save_file)
    /\ alerts_file' = alerts_file
    /\ DiesOfWrite(t)
    /\ UNCHANGED <<devices, devOrder, alerts, scanning, monitoring,
                   distance_mode, calibration, attendance, scansLeft,
                   nRecords, cmdsLeft, present, call, result, export>>

\* Line 1447 with a failing append.
log_attendanceFails(t) ==
    /\ pc[t] = "aa_log"
    /\ DiesOfWrite(t)
    /\ UNCHANGED <<shared, scansLeft, nRecords, cmdsLeft, present, call,
                   result, export>>

\* Line 1449 with a failing write.
AddAlertSaveFails(t) ==
    /\ pc[t] = "aa_save"
    /\ save_file' \in AfterFailedWrite(save_file)
    /\ alerts_file' = alerts_file
    /\ DiesOfWrite(t)
    /\ UNCHANGED <<devices, devOrder, alerts, scanning, monitoring,
                   distance_mode, calibration, attendance, scansLeft,
                   nRecords, cmdsLeft, present, call, result, export>>

\* ----------------------------------------------------- monitor_loop()

\* Line 1478: the loop condition.  A loop that reads monitoring = False
\* ends, and its thread with it.
LoopCheck(t) ==
    /\ pc[t] = "loop"
    /\ IF monitoring
       THEN /\ scansLeft > 0
            /\ pc' = [pc EXCEPT ![t] = "guard"]
            /\ scansLeft' = scansLeft - 1
            /\ kind' = kind
            /\ hist' = hist
       ELSE /\ pc' = [pc EXCEPT ![t] = "idle"]
            /\ kind' = [kind EXCEPT ![t] = "none"]
            /\ scansLeft' = scansLeft
            /\ hist' = [hist EXCEPT ![t] = InitHist]
    /\ UNCHANGED <<shared, loc, nRecords, cmdsLeft, present, call, result, export>>

\* Line 1480: time.sleep(30) ends.
LoopSleep(t) ==
    /\ pc[t] = "sleep"
    /\ pc' = [pc EXCEPT ![t] = "loop"]
    /\ UNCHANGED <<shared, kind, loc, hist, scansLeft, nRecords, cmdsLeft, present, call, result, export>>

\* ------------------------------------------------------ HTTP handlers

\* The thread a handler or start_monitoring creates.
FreeSlots == {t \in Threads : kind[t] = "none"}
NewThread == CHOOSE t \in FreeSlots : \A u \in FreeSlots : t <= u

\* The request a handler serves and the status its jsonify(...) returns.
Responds(request, status) ==
    /\ call' = request
    /\ result' = status

\* Which threads a stop_monitoring call finds alive in monitor_loop, and
\* where it finds the threads that are inside a cycle (history).
StopSeen(t) ==
    [hist[t] EXCEPT
       !.stopped = @ \/ (kind[t] = "loop" /\ pc[t] # "dead"),
       !.stopAt = IF pc[t] \in SweepPcs THEN "sweep"
                  ELSE IF pc[t] \in PassPcs THEN "pass"
                  ELSE IF pc[t] \in AddAlertPcs
                  THEN (IF loc[t].ret = "sound" THEN "sweep" ELSE "pass")
                  ELSE @]

\* start_monitoring (lines 1473-1483, POST /start_monitoring).
StartMonitoring ==
    /\ cmdsLeft > 0
    /\ FreeSlots # {}
    /\ monitoring' = TRUE
    /\ kind' = [kind EXCEPT ![NewThread] = "loop"]
    /\ pc' = [pc EXCEPT ![NewThread] = "loop"]
    /\ cmdsLeft' = cmdsLeft - 1
    /\ Responds(<<"start_monitoring">>, "started")
    /\ UNCHANGED <<devices, devOrder, scanning, distance_mode, calibration,
                   alerts, attendance, save_file, alerts_file, loc, hist,
                   scansLeft, nRecords, present, export>>

\* A stop that preempts: the cycles in flight are abandoned where they are.
StopMonitoringAborts ==
    /\ cmdsLeft > 0
    /\ monitoring' = FALSE
    /\ cmdsLeft' = cmdsLeft - 1
    /\ hist' = [t \in Threads |-> StopSeen(t)]
    /\ pc' = [t \in Threads |-> IF InCycle(t) THEN "dead" ELSE pc[t]]
    /\ Responds(<<"stop_monitoring">>, "stopped")
    /\ UNCHANGED <<devices, devOrder, scanning, distance_mode, calibration,
                   alerts, attendance, save_file, alerts_file, kind, loc,
                   scansLeft, nRecords, present, export>>

\* stop_monitoring (lines 1485-1487, POST /stop_monitoring).
StopMonitoring ==
    /\ cmdsLeft > 0
    /\ monitoring' = FALSE
    /\ cmdsLeft' = cmdsLeft - 1
    /\ hist' = [t \in Threads |-> StopSeen(t)]
    /\ Responds(<<"stop_monitoring">>, "stopped")
    /\ UNCHANGED <<devices, devOrder, scanning, distance_mode, calibration,
                   alerts, attendance, save_file, alerts_file, kind, pc, loc,
                   scansLeft, nRecords, present, export>>

\* scan_network (POST /scan): a thread that runs monitor.scan.
ScanNetwork ==
    /\ scansLeft > 0
    /\ FreeSlots # {}
    /\ kind' = [kind EXCEPT ![NewThread] = "http"]
    /\ pc' = [pc EXCEPT ![NewThread] = "guard"]
    /\ scansLeft' = scansLeft - 1
    /\ Responds(<<"scan">>, "scanning")
    /\ UNCHANGED <<shared, loc, hist, nRecords, cmdsLeft, present, export>>

\* scan_with_distance (POST /scan_with_distance).
ScanWithDistance ==
    /\ scansLeft > 0
    /\ FreeSlots # {}
    /\ distance_mode' = TRUE
    /\ kind' = [kind EXCEPT ![NewThread] = "http"]
    /\ pc' = [pc EXCEPT ![NewThread] = "guard"]
    /\ scansLeft' = scansLeft - 1
    /\ Responds(<<"scan_with_distance">>, "scanning with distance")
    /\ UNCHANGED <<devices, devOrder, scanning, monitoring, calibration,
                   alerts, attendance, save_file, alerts_file, loc, hist,
                   nRecords, cmdsLeft, present, export>>

\* toggle_distance (POST /toggle_distance).
ToggleDistance(enabled) ==
    /\ cmdsLeft > 0
    /\ distance_mode' = enabled
    /\ cmdsLeft' = cmdsLeft - 1
    /\ Responds(<<"toggle_distance", enabled>>, "updated")
    /\ UNCHANGED <<devices, devOrder, scanning, monitoring, calibration,
                   alerts, attendance, save_file, alerts_file, kind, pc, loc,
                   hist, scansLeft, nRecords, present, export>>

\* An update_device whose alerts are live references: the alerts of the
\* device follow its new name and type.
UpdateDeviceRewritesAlerts(ip, name, mon, dtype) ==
    /\ cmdsLeft > 0
    /\ devices[ip].known
    /\ devices' = [devices EXCEPT ![ip].custom_name = name,
                                  ![ip].monitored = mon,
                                  ![ip].device_type = dtype]
    /\ alerts' = [k \in 1..Len(alerts) |->
                    IF alerts[k].ip = ip
                    THEN [alerts[k] EXCEPT !.device_name = name,
                                           !.device_type = dtype]
                    ELSE alerts[k]]
    /\ UNCHANGED devOrder
    /\ save_data
    /\ Responds(<<"update_device", ip, name, mon, dtype>>, "updated")
    /\ cmdsLeft' = cmdsLeft - 1
    /\ UNCHANGED <<scanning, monitoring, distance_mode, calibration,
                   attendance, kind, pc, loc, hist, scansLeft, nRecords,
                   present, export>>

\* update_device (POST /update_device): the three fields of a known
\* address are set and the data saved; an unknown one gets 404 and nothing
\* changes.
UpdateDevice(ip, name, mon, dtype) ==
    /\ cmdsLeft > 0
    /\ IF devices[ip].known
       THEN /\ devices' = [devices EXCEPT ![ip].custom_name = name,
                                          ![ip].monitored = mon,
                                          ![ip].device_type = dtype]
            /\ UNCHANGED <<devOrder, alerts>>
            /\ save_data
            /\ Responds(<<"update_device", ip, name, mon, dtype>>, "updated")
       ELSE /\ UNCHANGED <<devices, devOrder, alerts, save_file, alerts_file>>
            /\ Responds(<<"update_device", ip, name, mon, dtype>>, "not_found")
    /\ cmdsLeft' = cmdsLeft - 1
    /\ UNCHANGED <<scanning, monitoring, distance_mode, calibration,
                   attendance, kind, pc, loc, hist, scansLeft, nRecords,
                   present, export>>

\* update_calibration (POST /update_calibration): the three values of the
\* request are stored as they come, a missing one as its default, and the
\* data saved.  No value is validated.
UpdateCalibration(data) ==
    /\ cmdsLeft > 0
    /\ calibration' = [ref |-> Get(data.ref, -40),
                       ple |-> Get(data.ple, 20000),
                       thr |-> Get(data.thr, 50)]
    /\ UNCHANGED <<devices, devOrder, alerts>>
    /\ save_data
    /\ cmdsLeft' = cmdsLeft - 1
    /\ Responds(<<"update_calibration", data>>, "updated")
    /\ UNCHANGED <<scanning, monitoring, distance_mode, attendance, kind, pc,
                   loc, hist, scansLeft, nRecords, present, export>>

\* A clear that also starts the attendance record over.
ClearAlertsAndRecord ==
    /\ cmdsLeft > 0
    /\ alerts' = <<>>
    /\ attendance' = <<>>
    /\ UNCHANGED <<devices, devOrder>>
    /\ save_data
    /\ cmdsLeft' = cmdsLeft - 1
    /\ Rebound
    /\ Responds(<<"clear_alerts">>, "cleared")
    /\ UNCHANGED <<scanning, monitoring, distance_mode, calibration,
                   kind, pc, loc, hist, scansLeft, nRecords, present>>

\* clear_alerts (POST /clear_alerts).
ClearAlerts ==
    /\ cmdsLeft > 0
    /\ alerts' = <<>>
    /\ UNCHANGED <<devices, devOrder>>
    /\ save_data
    /\ cmdsLeft' = cmdsLeft - 1
    /\ Rebound
    /\ Responds(<<"clear_alerts">>, "cleared")
    /\ UNCHANGED <<scanning, monitoring, distance_mode, calibration,
                   attendance, kind, pc, loc, hist, scansLeft, nRecords, present>>

\* export_attendance (GET /export_attendance), lines 1579-1589: the date
\* of the request, the temporary file with its header row, and the
\* iterator over monitor.alerts.
ExportBegin(date) ==
    /\ cmdsLeft > 0
    /\ export.pc # "iter"
    /\ export' = [pc |-> "iter", date |-> date, list |-> alerts,
                  attached |-> TRUE, k |-> 1, rows |-> <<>>,
                  first |-> alerts]
    /\ cmdsLeft' = cmdsLeft - 1
    /\ Responds(<<"export_attendance", date>>, "pending")
    /\ UNCHANGED <<shared, kind, pc, loc, hist, scansLeft, nRecords, present>>

\* Lines 1589-1604 for the next alert of the iteration: its row is written
\* if the date of its timestamp is the requested one.
ExportRow ==
    /\ export.pc = "iter"
    /\ export.k <= Len(export.list)
    /\ LET alert == export.list[export.k] IN
       export' = [export EXCEPT
                    !.k = @ + 1,
                    !.rows = IF alert_date(alert.timestamp) = export.date
                             THEN Append(@, alert)
                             ELSE @]
    /\ UNCHANGED <<shared, kind, pc, loc, hist, scansLeft, nRecords, present,
                   cmdsLeft, call, result>>

\* The iteration is over (the index has reached the length of the list):
\* lines 1606-1610 send the file.
ExportEnd ==
    /\ export.pc = "iter"
    /\ export.k > Len(export.list)
    /\ export' = [export EXCEPT !.pc = "done"]
    /\ result' = export.rows
    /\ UNCHANGED <<shared, kind, pc, loc, hist, scansLeft, nRecords, present,
                   cmdsLeft, call>>

\* ------------------------------------------------------ specifications

\* A step of a thread in monitor_loop, scan or add_alert with distance
\* mode off.
ThreadStep(t) ==
    \/ ScanDropped(t)
    \/ ScanAdmitted(t)
    \/ ScanSet(t)
    \/ ScanBegin(t)
    \/ ScanPingMiss(t)
    \/ ScanPingHit(t)
    \/ ScanPost(t)
    \/ ScanPresence(t)
    \/ ScanFinish(t)
    \/ ScanSave(t)
    \/ AddAlertInsert(t)
    \/ AddAlertTruncate(t)
    \/ log_attendance(t)
    \/ AddAlertSave(t)
    \/ LoopCheck(t)
    \/ LoopSleep(t)

\* The steps of scan() that distance mode adds.
DistanceStep(t) ==
    \/ \E lat \in LatencySamples : ScanDistance(t, lat)
    \/ ScanSound(t)

Device(ip, k, o, m) ==
    [known |-> k, online |-> o, monitored |-> m,
     rssi |-> NoRssi, dist |-> NoDistance,
     custom_name |-> "", device_type |-> "employee",
     ip |-> ip, mac |-> MacOf(ip), first_seen |-> Earlier,
     last_seen |-> Earlier]

\* Two registries of an earlier run: both addresses known, monitored and
\* online; address 1 known, monitored and offline with address 2 unknown.
BothOnline == [h \in Hosts |-> Device(h, TRUE, TRUE, TRUE)]
OneOffline ==
    [h \in Hosts |-> IF h = 1 THEN Device(h, TRUE, FALSE, TRUE) ELSE UnknownDevice]

\* Spec: the reentrancy guard and the monitor scheduler.  Scans are
\* requested over HTTP and by monitor loops that are started and stopped.
Init == InitWith({BothOnline, OneOffline}, {1}, MaxScans, MaxCmds)

Next ==
    \/ \E t \in Threads : ThreadStep(t)
    \/ StartMonitoring
    \/ StopMonitoring
    \/ ScanNetwork

Spec == Init /\ [][Next]_vars

\* SpecLedger: the alert ledger and the attendance record.  Monitoring is
\* started, scans run from the loop and over HTTP, and the ledger is
\* cleared, at any point of a running add_alert.
InitLedger == InitWith({BothOnline}, {1}, LedgerScans, LedgerCmds)

NextLedger ==
    \/ \E t \in Threads : ThreadStep(t)
    \/ StartMonitoring
    \/ ScanNetwork
    \/ ClearAlerts

SpecLedger == InitLedger /\ [][NextLedger]_vars

\* SpecPresence: the presence state machine.  Monitoring is started and
\* stopped and devices are edited at any point of the cycles.
InitPresence ==
    InitWith({BothOnline, OneOffline}, Hosts, PresenceScans, PresenceCmds)

NextPresence ==
    \/ \E t \in Threads : ThreadStep(t)
    \/ StartMonitoring
    \/ StopMonitoring
    \/ \E ip \in Hosts, mon \in BOOLEAN : UpdateDevice(ip, "", mon, "employee")

SpecPresence == InitPresence /\ [][NextPresence]_vars

\* SpecDistance: cycles with distance mode, under calibrations that are
\* changed between and during them.  Address 1 is known and not monitored.
OneUnmonitored ==
    [h \in Hosts |-> IF h = 1 THEN Device(h, TRUE, TRUE, FALSE) ELSE UnknownDevice]

InitDistance == InitWith({OneUnmonitored}, {1}, DistanceScans, DistanceCmds)

NextDistance ==
    \/ \E t \in Threads : ThreadStep(t) \/ DistanceStep(t)
    \/ StartMonitoring
    \/ ScanWithDistance
    \/ \E cal \in CalInputs : UpdateCalibration(cal)

SpecDistance == InitDistance /\ [][NextDistance]_vars

\* SpecCommands: commands with inputs the handlers do not expect (an
\* address that is not in the registry, calibration requests that are not
\* three numbers) next to well-formed ones, and a distance cycle.
InitCommands == InitWith({OneUnmonitored}, {1}, CommandScans, CommandCmds)

NextCommands ==
    \/ \E t \in Threads : ThreadStep(t) \/ DistanceStep(t)
    \/ StartMonitoring
    \/ ScanWithDistance
    \/ \E ip \in Hosts, mon \in BOOLEAN : UpdateDevice(ip, "", mon, "employee")
    \/ \E data \in BadCalInputs \cup {CalInputs2} : UpdateCalibration(data)

SpecCommands == InitCommands /\ [][NextCommands]_vars

\* SpecFaults: cycles in which any write to the three files can fail.
FaultStep(t) ==
    \/ ScanSaveFails(t)
    \/ log_attendanceFails(t)
    \/ AddAlertSaveFails(t)

InitFaults == InitWith({BothOnline}, {1}, FaultScans, FaultCmds)

NextFaults ==
    \/ \E t \in Threads : ThreadStep(t) \/ FaultStep(t)
    \/ StartMonitoring
    \/ ScanNetwork

SpecFaults == InitFaults /\ [][NextFaults]_vars

\* SpecFaultsLive: SpecFaults with every thread scheduled: a thread that
\* can take a step (with or without a failing write) eventually takes one.
SpecFaultsLive ==
    SpecFaults /\ \A t \in Threads : WF_vars(ThreadStep(t) \/ FaultStep(t))

\* SpecSnapshot: devices are renamed and reclassified and the calibration
\* is changed while cycles record alerts.
Names == {"", "Ann"}
DeviceTypes == {"employee", "visitor"}

InitSnapshot == InitWith({BothOnline}, {1}, SnapshotScans, SnapshotCmds)

NextSnapshot ==
    \/ \E t \in Threads : ThreadStep(t)
    \/ StartMonitoring
    \/ \E ip \in Hosts, name \in Names, mon \in BOOLEAN, dtype \in DeviceTypes :
          UpdateDevice(ip, name, mon, dtype)
    \/ UpdateCalibration(CalInputs2)

SpecSnapshot == InitSnapshot /\ [][NextSnapshot]_vars

\* SpecPersist: scans requested over HTTP, with save_data at the grain of
\* its file object, while devices are edited.  Monitoring is off, so the
\* cycles record no alerts.
PersistStep(t) ==
    \/ ScanDropped(t)
    \/ ScanAdmitted(t)
    \/ ScanSet(t)
    \/ ScanBegin(t)
    \/ ScanPingMiss(t)
    \/ ScanPingHit(t)
    \/ ScanPost(t)
    \/ ScanFinish(t)
    \/ ScanSaveDump(t)
    \/ ScanSaveClose(t)

InitPersist ==
    InitWith({BothOnline, OneOffline}, Hosts, PersistScans, PersistCmds)

NextPersist ==
    \/ \E t \in Threads : PersistStep(t)
    \/ ScanNetwork
    \/ \E ip \in Hosts, mon \in BOOLEAN : UpdateDevice(ip, "", mon, "employee")

SpecPersist == InitPersist /\ [][NextPersist]_vars

\* SpecEstimator: the functions of the distance estimator, applied to the
\* distances from 0.0 m to MaxDistance and to None.
DistanceInputs == (0..MaxDistance) \cup {NoDistance}

\* A call of get_zone (lines 1299-1310).
ApplyGetZone(distance) ==
    /\ call' = <<"get_zone", distance>>
    /\ result' = get_zone(distance)
    /\ UNCHANGED <<shared, kind, pc, loc, hist, nRecords, present, scansLeft,
                   cmdsLeft, export>>

InitEstimator == InitWith({BothOnline}, {}, 0, 0)

NextEstimator == \E distance \in DistanceInputs : ApplyGetZone(distance)

SpecEstimator == InitEstimator /\ [][NextEstimator]_vars

\* SpecWriters: everything that writes the registry or the alert list.
\* Cycles run from the loop and over HTTP while devices are edited and the
\* ledger is cleared.
InitWriters == InitWith({BothOnline}, {1}, WriterScans, WriterCmds)

NextWriters ==
    \/ \E t \in Threads : ThreadStep(t)
    \/ StartMonitoring
    \/ ScanNetwork
    \/ \E ip \in Hosts, mon \in BOOLEAN : UpdateDevice(ip, "", mon, "employee")
    \/ ClearAlerts

SpecWriters == InitWriters /\ [][NextWriters]_vars

\* SpecExport: the attendance of a day is exported while monitoring
\* records alerts around midnight.  Address 1 was offline and answers,
\* address 2 was online and does not.
Crossing == [h \in Hosts |-> Device(h, TRUE, h # 1, TRUE)]

\* The dates requested: the days of the alerts and the day after.
Dates == FirstDay..(FirstDay + 2)

InitExport == InitWith({Crossing}, {1}, ExportScans, ExportCmds)

NextExport ==
    \/ \E t \in Threads : ThreadStep(t)
    \/ StartMonitoring
    \/ \E date \in Dates : ExportBegin(date)
    \/ ExportRow
    \/ ExportEnd

SpecExport == InitExport /\ [][NextExport]_vars

\* SpecZones: cycles with and without distance mode and monitoring over a
\* registry whose device has an estimate from an earlier cycle.  Address 1
\* is known and monitored, was online or offline when the registry was
\* saved, and its stored estimate is 0.0 m, 1.0 m or 316.2 m; address 2 is
\* unknown and has no host.
Ranged(o, distance) ==
    [h \in Hosts |->
       IF h = 1
       THEN [Device(h, TRUE, o, TRUE) EXCEPT !.rssi = -70, !.dist = distance]
       ELSE UnknownDevice]

Registries == {Ranged(FALSE, 10), Ranged(TRUE, 0), Ranged(TRUE, 3162)}

\* The default calibration with distanceThreshold = 10.
Threshold10 == [ref |-> -40, ple |-> 20000, thr |-> 10]

InitZones == InitWith(Registries, {1}, ZoneScans, ZoneCmds)

NextZones ==
    \/ \E t \in Threads : ThreadStep(t) \/ DistanceStep(t)
    \/ StartMonitoring
    \/ ScanWithDistance
    \/ UpdateCalibration(Threshold10)

SpecZones == InitZones /\ [][NextZones]_vars

\* SpecIdentity: scans requested over HTTP, with the creation of a device
\* record at the grain of its statements, while devices are named, marked
\* monitored and classified as visitors.  Address 1 is known, address 2 is
\* new and answers.  Monitoring is off.
IdentityStep(t) ==
    \/ ScanDropped(t)
    \/ ScanAdmitted(t)
    \/ ScanSet(t)
    \/ ScanBegin(t)
    \/ ScanPingMiss(t)
    \/ ScanPingKnown(t)
    \/ ScanPingNew(t)
    \/ \E mac \in {NoMac, MacOf(loc[t].i)} : ScanCreate(t, mac)
    \/ ScanPost(t)
    \/ ScanFinish(t)
    \/ ScanSave(t)

InitIdentity == InitWith({OneUnmonitored}, Hosts, IdentityScans, IdentityCmds)

NextIdentity ==
    \/ \E t \in Threads : IdentityStep(t)
    \/ ScanNetwork
    \/ \E ip \in Hosts : UpdateDevice(ip, "Ann", TRUE, "visitor")

SpecIdentity == InitIdentity /\ [][NextIdentity]_vars

\* SpecFrame: plain and distance scans requested over HTTP while distance
\* mode is switched on and off.  Address 1 is known with an estimate of
\* 316.2 m and may or may not answer.  Monitoring is off.
FrameStep(t) ==
    \/ ScanDropped(t)
    \/ ScanAdmitted(t)
    \/ ScanSet(t)
    \/ ScanBegin(t)
    \/ ScanPingMiss(t)
    \/ ScanPingHit(t)
    \/ \E lat \in LatencySamples : ScanDistance(t, lat)
    \/ ScanPost(t)
    \/ ScanFinish(t)
    \/ ScanSave(t)

InitFrame == InitWith({Ranged(TRUE, 3162)}, {1}, FrameScans, FrameCmds)

NextFrame ==
    \/ \E t \in Threads : FrameStep(t)
    \/ ScanNetwork
    \/ ScanWithDistance
    \/ \E enabled \in BOOLEAN : ToggleDistance(enabled)

SpecFrame == InitFrame /\ [][NextFrame]_vars

\* SpecToggle: monitoring is started between cycles and stopped, while it
\* is on, at any point of a cycle.  Address 1 answers; it is known and
\* monitored, online or offline, and address 2, if known, does not answer.
\* Within a cycle monitoring can only go from on to off.
StartWhileIdle ==
    /\ \A t \in Threads : ~InCycle(t)
    /\ StartMonitoring

StopWhileOn ==
    /\ monitoring
    /\ StopMonitoring

InitToggle == InitWith({BothOnline, OneOffline}, {1}, ToggleScans, ToggleCmds)

NextToggle ==
    \/ \E t \in Threads : ThreadStep(t)
    \/ StartWhileIdle
    \/ StopWhileOn

SpecToggle == InitToggle /\ [][NextToggle]_vars

\* SpecAlternate: one monitor loop, started once and never stopped, runs
\* cycle after cycle; no device is edited.  Address 1 answers some probes
\* and not others.
AlternateStep(t) ==
    \/ ScanAdmitted(t)
    \/ ScanSet(t)
    \/ ScanBegin(t)
    \/ ScanPingMiss(t)
    \/ ScanPingHit(t)
    \/ ScanPost(t)
    \/ ScanPresence(t)
    \/ ScanFinish(t)
    \/ ScanSave(t)
    \/ AddAlertInsert(t)
    \/ AddAlertTruncate(t)
    \/ log_attendance(t)
    \/ AddAlertSave(t)
    \/ LoopCheck(t)
    \/ LoopSleep(t)

\* start_monitoring called once: no loop is alive and monitoring is off.
StartOnce ==
    /\ \A t \in Threads : kind[t] = "none"
    /\ ~monitoring
    /\ StartMonitoring

InitAlternate ==
    InitWith({BothOnline, OneOffline}, {1}, AlternateScans, AlternateCmds)

NextAlternate ==
    \/ \E t \in Threads : AlternateStep(t)
    \/ StartOnce

SpecAlternate == InitAlternate /\ [][NextAlternate]_vars

\* SpecClear: one monitor loop, started once, records alerts cycle after
\* cycle, with line 1444 at the grain of its evaluation, while the ledger
\* is cleared at any point.  There is never more than one cycle.
ClearStep(t) ==
    \/ ScanAdmitted(t)
    \/ ScanSet(t)
    \/ ScanBegin(t)
    \/ ScanPingMiss(t)
    \/ ScanPingHit(t)
    \/ ScanPost(t)
    \/ ScanPresence(t)
    \/ ScanFinish(t)
    \/ ScanSave(t)
    \/ AddAlertInsert(t)
    \/ AddAlertSlice(t)
    \/ AddAlertAssign(t)
    \/ log_attendance(t)
    \/ AddAlertSave(t)
    \/ LoopCheck(t)
    \/ LoopSleep(t)

InitClear == InitWith({BothOnline, OneOffline}, {1}, ClearScans, ClearCmds)

NextClear ==
    \/ \E t \in Threads : ClearStep(t)
    \/ StartOnce
    \/ ClearAlerts

SpecClear == InitClear /\ [][NextClear]_vars

\* SpecMode: plain and distance scans are requested and distance mode is
\* switched at any point of a cycle.  Both addresses are known, without an
\* estimate, and answer.  Monitoring is off.
InitMode == InitWith({BothOnline}, Hosts, ModeScans, ModeCmds)

NextMode ==
    \/ \E t \in Threads : FrameStep(t)
    \/ ScanNetwork
    \/ ScanWithDistance
    \/ \E enabled \in BOOLEAN : ToggleDistance(enabled)

SpecMode == InitMode /\ [][NextMode]_vars

\* SpecFormula: the two functions of the distance estimator as lines 1382
\* and 1391-1392 apply them: calculate_distance to the calibrations of the
\* model and every signal strength ping_with_stats returns (and none),
\* get_zone to distances.
ApplyCalculateDistance(cal, rssi) ==
    /\ call' = <<"calculate_distance", cal, rssi>>
    /\ result' = calculate_distance(cal, rssi)
    /\ UNCHANGED <<shared, kind, pc, loc, hist, nRecords, present, scansLeft,
                   cmdsLeft, export>>

InitFormula == InitWith({BothOnline}, {}, 0, 0)

NextFormula ==
    \/ \E cal \in CalInputs, rssi \in RssiBuckets \cup {NoRssi} :
          ApplyCalculateDistance(cal, rssi)
    \/ \E distance \in DistanceInputs : ApplyGetZone(distance)

SpecFormula == InitFormula /\ [][NextFormula]_vars

\* SpecProbe: ping_with_stats as a function of the platform and of what
\* the ping command does, for average latencies from 0.0 to MaxLatency.

\* platform.system() where the program runs.
Platforms == {"Windows", "Linux", "Darwin"}

\* result.stdout as a sequence of tokens: literal text, or a run of digits
\* and dots with its value in tenths of a millisecond.
Lit(text) == [lit |-> text, num |-> NoSample]
Num(value) == [lit |-> "", num |-> value]

\* The summary the ping of each platform prints for an average latency
\* lat: Windows prints whole milliseconds after "Average = "; iputils and
\* BSD ping print the names min/avg/max/... and then the values.
Summary(platform, lat) ==
    IF platform = "Windows"
    THEN <<Lit("Minimum = "), Num((lat \div 10) * 10), Lit("ms"),
           Lit(", Maximum = "), Num((lat \div 10) * 10), Lit("ms"),
           Lit(", Average = "), Num((lat \div 10) * 10), Lit("ms")>>
    ELSE <<Lit(IF platform = "Linux" THEN "rtt min/" ELSE "round-trip min/"),
           Lit("avg/"), Lit("max/"),
           Lit(IF platform = "Linux" THEN "mdev = " ELSE "stddev = "),
           Num(lat), Lit("/"), Num(lat), Lit("/"), Num(lat), Lit("/"),
           Num(0), Lit(" ms")>>

\* What subprocess.run of line 1203 does: the command exits with 0 and a
\* summary, exits with another code, or the call raises (TimeoutExpired,
\* OSError).
Runs(platform) ==
    [outcome : {"ok"}, stdout : {Summary(platform, lat) : lat \in 0..MaxLatency}]
      \cup {[outcome |-> "nonzero", stdout |-> <<>>],
            [outcome |-> "raises", stdout |-> <<>>]}

\* Ends(text, suffix): the literal text ends with suffix, for the literals
\* of the summaries.
Ends(text, suffix) ==
    \/ text = suffix
    \/ suffix = "Average = " /\ text = ", Average = "

\* re.search of lines 1208 and 1210: the group of the first place where
\* the text before the group, a run of digits (and dots) and the text
\* after the group follow each other; NoSample when there is none.
SearchGroup(before, after, stdout) ==
    LET found == {k \in 1..(Len(stdout) - 2) :
                    /\ stdout[k].lit # "" /\ Ends(stdout[k].lit, before)
                    /\ stdout[k + 1].lit = ""
                    /\ stdout[k + 2].lit = after}
    IN IF found = {} THEN NoSample
       ELSE stdout[(CHOOSE k \in found : \A j \in found : k <= j) + 1].num

\* Lines 1195-1231.
ping_with_stats(platform, run) ==
    IF run.outcome # "ok" THEN -70
    ELSE LatencyToRssi(IF platform = "Windows"
                       THEN SearchGroup("Average = ", "ms", run.stdout)
                       ELSE SearchGroup("avg/", "/", run.stdout))

\* A call of ping_with_stats (line 1381).
ApplyPingWithStats(platform, run) ==
    /\ call' = <<"ping_with_stats", platform, run>>
    /\ result' = ping_with_stats(platform, run)
    /\ UNCHANGED <<shared, kind, pc, loc, hist, nRecords, present, scansLeft,
                   cmdsLeft, export>>

InitProbe == InitWith({BothOnline}, {}, 0, 0)

NextProbe ==
    \E platform \in Platforms :
        \E run \in Runs(platform) : ApplyPingWithStats(platform, run)

SpecProbe == InitProbe /\ [][NextProbe]_vars

\* ------------------------------------------------------------- claims

InCycleThreads == {t \in Threads : InCycle(t)}

\* C1: of any scan() requests issued concurrently, one executes a Scan
\* Cycle: at most one thread is between the guard check of line 1334 and
\* the reset of the scanning flag of line 1423.
C1_OneCycleAtATime == Cardinality(InCycleThreads) <= 1

\* C2: a scan() call that finds the scanning flag set returns without
\* changing the registry, the alert list, the attendance record, the
\* persisted files or the flag, and starts nothing on its behalf: its
\* thread ends (HTTP) or goes back to sleep (monitor loop), and no scan()
\* call is scheduled.
C2_DroppedScanIsNoOp ==
    [][\A t \in Threads :
         (pc[t] = "guard" /\ scanning /\ pc'[t] # "guard") =>
            /\ UNCHANGED <<shared, nRecords, scansLeft>>
            /\ pc'[t] = (IF kind[t] = "loop" THEN "sleep" ELSE "idle")
            /\ kind'[t] = (IF kind[t] = "loop" THEN "loop" ELSE "none")
            /\ \A u \in Threads \ {t} : pc'[u] = pc[u] /\ kind'[u] = kind[u]]_vars

\* C2's case: a call was dropped while another thread runs its cycle.
C2_Witness ==
    \E t \in Threads :
        /\ hist[t].last = "dropped"
        /\ \E u \in Threads \ {t} : InCycle(u)

\* C10: while monitoring is enabled at most one monitor_loop thread is
\* alive to trigger further Scan Cycles.
LiveLoops == {t \in Threads : kind[t] = "loop" /\ pc[t] # "dead"}

C10_AtMostOneLoop == monitoring => Cardinality(LiveLoops) <= 1

BeforeTruncate == {t \in Threads : pc[t] = "aa_trunc"}

RecordCalls == nRecords + Cardinality({t \in Threads : pc[t] = "aa_insert"})
BeforeRow ==
    {t \in Threads : pc[t] \in {"aa_insert", "aa_trunc", "aa_assign", "aa_log"}}

RowsMatchCalls ==
    /\ Len(attendance) = RecordCalls - Cardinality(BeforeRow)
    /\ \A r1, r2 \in 1..Len(attendance) :
          attendance[r1].id = attendance[r2].id => r1 = r2

IsPrefix(a, b) == Len(a) <= Len(b) /\ a = SubSeq(b, 1, Len(a))

\* C8: the attendance record has one row per add_alert call that has
\* reached its append (every call appends exactly one row, each row is of
\* a call of its own), and no step of any operation removes or rewrites a
\* row: the record only grows at its end.
C8_OneRowPerRecord ==
    [][/\ RowsMatchCalls
       /\ RowsMatchCalls'
       /\ IsPrefix(attendance, attendance')]_vars

\* C8's case: more alerts were recorded than the list keeps, every call
\* has returned, and the record holds them all.
C8_Witness ==
    /\ nRecords > AlertCap
    /\ BeforeRow = {}
    /\ Len(attendance) = nRecords
    /\ Len(alerts) < Len(attendance)

\* C9: every alert in the in-memory list, which GET /alerts returns at
\* any moment, has its row in the attendance record.
C9_RowBeforeVisible ==
    \A k \in 1..Len(alerts) :
        \E r \in 1..Len(attendance) : attendance[r].id = alerts[k].id

\* The cycle of thread t is complete (its presence pass is over and the
\* flag is reset) and no other cycle overlapped it.
CycleDone(t) == pc[t] = "save" /\ ~hist[t].overlap

Count(seq, x) == Cardinality({k \in 1..Len(seq) : seq[k] = x})

\* C3: in a cycle that follows the previous one without overlap, a device
\* that was online at the end of the previous cycle and does not answer
\* this cycle's single probe, with monitoring enabled when the presence
\* pass begins and the device monitored when the pass reaches it, gets
\* exactly one departure alert and no arrival alert.
C3_DepartureOnce ==
    \A t \in Threads, d \in Hosts :
        (/\ CycleDone(t)
         /\ loc[t].monChk
         /\ d \in hist[t].evaluated
         /\ loc[t].previous_online[d]
         /\ d \notin hist[t].reach)
        => /\ Count(hist[t].emitted, <<d, "departure">>) = 1
           /\ Count(hist[t].emitted, <<d, "arrival">>) = 0

\* C3's case: a complete cycle in which a monitored device that was
\* online did not answer, its departure recorded.
C3_Witness ==
    \E t \in Threads, d \in Hosts :
        /\ CycleDone(t)
        /\ d \in hist[t].evaluated
        /\ loc[t].previous_online[d]
        /\ d \notin hist[t].reach
        /\ <<d, "departure">> \in {hist[t].emitted[k] :
                                     k \in 1..Len(hist[t].emitted)}
        /\ \E k \in 1..Len(attendance) :
              attendance[k].ip = d /\ attendance[k].type = "departure"

\* C4: in such a cycle a monitored device that was offline and answers
\* gets exactly one arrival alert and no departure alert, and a device
\* whose online flag is the same before and after the cycle gets neither.
C4_ArrivalOnce ==
    \A t \in Threads, d \in Hosts :
        CycleDone(t) =>
          /\ (/\ loc[t].monChk
              /\ d \in hist[t].evaluated
              /\ ~loc[t].previous_online[d]
              /\ d \in hist[t].reach)
             => /\ Count(hist[t].emitted, <<d, "arrival">>) = 1
                /\ Count(hist[t].emitted, <<d, "departure">>) = 0
          /\ (loc[t].previous_online[d] <=> d \in hist[t].reach)
             => /\ Count(hist[t].emitted, <<d, "arrival">>) = 0
                /\ Count(hist[t].emitted, <<d, "departure">>) = 0

\* C4's case: a complete cycle in which one monitored device arrived, its
\* alert recorded, and another monitored device stayed online.
C4_Witness ==
    \E t \in Threads, d, e \in Hosts :
        /\ CycleDone(t)
        /\ d \in hist[t].evaluated
        /\ ~loc[t].previous_online[d]
        /\ d \in hist[t].reach
        /\ hist[t].emitted = <<<<d, "arrival">>>>
        /\ e \in hist[t].evaluated
        /\ loc[t].previous_online[e]
        /\ e \in hist[t].reach

\* C5: every alert a cycle records is for a device whose monitored flag
\* is true when the cycle decides to record it.
C5_OnlyMonitoredAlert ==
    [][\A t \in Threads :
         (pc[t] # "aa_insert" /\ pc'[t] = "aa_insert") =>
            devices[loc'[t].alert.ip].monitored]_vars

\* C6: in a complete cycle without overlap, a device that was online at
\* the end of the previous cycle, answers in this one, has a previous
\* distance estimate and gets its new one with distance mode and
\* monitoring set, gets exactly one distance alert if the two estimates
\* differ by more than 10 meters and their zones differ, and none
\* otherwise.
C6_DistanceAlertRule ==
    \A t \in Threads, d \in Hosts :
        (/\ CycleDone(t)
         /\ loc[t].previous_online[d]
         /\ d \in hist[t].reach
         /\ d \in hist[t].estimated
         /\ loc[t].previous_distances[d] # NoDistance)
        => Count(hist[t].emitted, <<d, "distance">>) =
             (IF /\ Abs(devices[d].dist - loc[t].previous_distances[d]) > 100
                 /\ get_zone(devices[d].dist) #
                      get_zone(loc[t].previous_distances[d])
              THEN 1 ELSE 0)

\* C11: a monitor_loop thread that a stop_monitoring call found alive never
\* starts another scan after that stop: when it next tests its loop
\* condition (line 1478) it leaves the loop.
C11_StoppedLoopExits ==
    [][\A t \in Threads :
         (hist[t].stopped /\ pc[t] = "loop") => pc'[t] # "guard"]_vars

\* A cycle that a stop_monitoring call found in flight, not yet returned.
StoppedInFlight(t) == hist[t].stopAt # "none" /\ (InCycle(t) \/ pc[t] = "save")

\* C12: stop_monitoring changes nothing but the monitoring flag, and a
\* cycle it finds in flight goes on as it would have: the thread can take
\* its next step and does not die, every address that answers is marked
\* online, the sweep ends with every address probed once, the cycle is
\* left only through the reset of the scanning flag (line 1423), and the
\* call returns having written both files from memory (line 1424).
C12_StopDoesNotAbort ==
    [][/\ (monitoring /\ ~monitoring') =>
             UNCHANGED <<pc, kind, loc, devices, devOrder, scanning,
                         distance_mode, calibration, alerts, attendance,
                         save_file, alerts_file>>
       /\ \A t \in Threads :
            StoppedInFlight(t) =>
               /\ ENABLED ThreadStep(t)
               /\ pc'[t] # "dead"
               /\ (pc[t] = "ping" /\ hist'[t].reach # hist[t].reach) =>
                     /\ devices'[loc[t].i].known
                     /\ devices'[loc[t].i].online
               /\ (pc[t] # "post" /\ pc'[t] = "post") =>
                     \A h \in Hosts : hist'[t].probed[h] = 1
               /\ (InCycle(t) /\ pc'[t] \notin CyclePcs) =>
                     /\ pc[t] = "finish"
                     /\ pc'[t] = "save"
                     /\ scanning' = FALSE
               /\ (pc[t] = "save" /\ pc'[t] # "save") =>
                     /\ save_file' = <<devices', devOrder'>>
                     /\ alerts_file' = alerts'
                     /\ hist'[t].last = "ran"]_vars

\* C12's case: monitoring was stopped during the sweep of a cycle, and the
\* cycle has probed every address, marked those that answered and reset
\* the flag.
C12_Witness ==
    \E t \in Threads :
        /\ hist[t].stopAt = "sweep"
        /\ pc[t] = "save"
        /\ ~monitoring
        /\ ~scanning
        /\ hist[t].reach # {}
        /\ \A h \in Hosts : hist[t].probed[h] = 1
        /\ \A h \in hist[t].reach : devices[h].online

\* C13: get_zone maps every distance d with 0 <= d < 10 m (0 included) to
\* on-site, 10 <= d < 30 to near-site, 30 <= d < 50 to leaving, d >= 50 to
\* away, and only the undefined distance to unknown.
C13_ZoneBands ==
    call[1] = "get_zone" =>
       LET d == call[2] IN
       result = (IF d = NoDistance THEN "unknown"
                 ELSE IF d < 100 THEN "on-site"
                 ELSE IF d < 300 THEN "near-site"
                 ELSE IF d < 500 THEN "leaving"
                 ELSE "away")

\* A calibration request that is not three numbers with a non-zero
\* exponent.
Malformed(data) ==
    \/ {data.ref, data.ple, data.thr} \cap {Missing, NonNumeric} # {}
    \/ data.ple = 0

\* C14: update_device for an address that is not in the registry answers
\* not_found and changes no device record, alert or file; and
\* update_calibration with a malformed request answers with a rejection and
\* leaves the calibration and the registry as they were.
C14_InvalidCommandNoEffect ==
    [][/\ (/\ cmdsLeft' # cmdsLeft
           /\ call'[1] = "update_device"
           /\ ~devices[call'[2]].known)
          => /\ result' = "not_found"
             /\ UNCHANGED <<devices, devOrder, alerts, save_file, alerts_file>>
       /\ (/\ cmdsLeft' # cmdsLeft
           /\ call'[1] = "update_calibration"
           /\ Malformed(call'[2]))
          => /\ result' = "rejected"
             /\ UNCHANGED <<calibration, devices, devOrder>>]_vars

\* C15: a write that fails in save_data or log_attendance is not fatal.
\* It ends no thread other than an HTTP-spawned one at the last statement
\* of its scan() (line 1424), so that no cycle is aborted and no monitor
\* loop is ended by it; and the scanning flag is set only while some thread
\* runs a cycle, so that later cycles are admitted.
C15_WriteFailureNotFatal ==
    /\ \A t \in Threads :
          (hist[t].last = "write_failed" /\ pc[t] = "dead") =>
             (kind[t] = "http" /\ loc[t].ret = "none")
    /\ scanning => \E t \in Threads : InCycle(t)

\* The number of a position of a cycle, in the order in which scan() goes
\* through them: p is the thread's pc and l its locals.
Rank(p, l) ==
    LET sweep == 2 + 8 * (l.i - 1)
        pass == 3 + 8 * NHosts
        inAlert == CASE p = "aa_insert" -> 1
                     [] p \in {"aa_trunc", "aa_assign"} -> 2
                     [] p = "aa_log" -> 3 [] p = "aa_save" -> 4
    IN CASE p = "set" -> 0
         [] p = "begin" -> 1
         [] p = "ping" -> sweep
         [] p = "create" -> sweep + 1
         [] p = "dist" -> sweep + 2
         [] p \in AddAlertPcs /\ l.ret = "sound" -> sweep + 2 + inAlert
         [] p = "sound" -> sweep + 7
         [] p = "post" -> pass - 1
         [] p = "psm" -> pass + 5 * (l.j - 1)
         [] p \in AddAlertPcs /\ l.ret = "psm" -> pass + 5 * (l.j - 2) + inAlert
         [] p = "finish" -> pass + 5 * (NHosts + 1)
         [] p = "save" -> pass + 5 * (NHosts + 1) + 1

\* The position after host i of the sweep has been dealt with.
NextHost(t) ==
    IF loc[t].i < NHosts
    THEN pc'[t] = "ping" /\ loc'[t].i = loc[t].i + 1
    ELSE pc'[t] = "post"

\* C16: a probe that fails, errors or times out counts as "no answer" and
\* nothing else: the step changes no shared state, raises nothing and
\* moves the sweep to the next address; every sweep ends with each address
\* probed exactly once; the alert sound, whether it plays or fails, changes
\* no shared state and moves the sweep on; and every step of a cycle takes
\* it to a later position, so that the cycle ends.
C16_ProbeFailureIsolated ==
    [][\A t \in Threads :
         /\ (InCycle(t) /\ hist'[t].probed # hist[t].probed) =>
               /\ pc[t] = "ping"
               /\ pc'[t] # "dead"
               /\ hist'[t].probed[loc[t].i] = 1
               /\ hist'[t].reach = hist[t].reach =>
                     (UNCHANGED shared /\ NextHost(t))
         /\ (pc[t] # "post" /\ pc'[t] = "post") =>
               \A h \in Hosts : hist'[t].probed[h] = 1
         /\ (pc[t] = "sound" /\ pc'[t] # "sound") =>
               (UNCHANGED shared /\ NextHost(t))
         /\ (InCycle(t) /\ <<pc'[t], loc'[t]>> # <<pc[t], loc[t]>>
                        /\ pc'[t] # "dead") =>
               Rank(pc'[t], loc'[t]) > Rank(pc[t], loc[t])]_vars

\* C16's case: a cycle is complete in which a host that exists did not
\* answer its probe, with every address probed once.
C16_Witness ==
    \E t \in Threads :
        /\ pc[t] = "save"
        /\ present \ hist[t].reach # {}
        /\ \A h \in Hosts : hist[t].probed[h] = 1

\* C17: clear_alerts empties the in-memory alert list and writes the empty
\* list to the alerts file, and leaves the attendance record and the
\* device registry as they were.
C17_ClearKeepsRecord ==
    [][(cmdsLeft' # cmdsLeft /\ call'[1] = "clear_alerts") =>
          /\ alerts' = <<>>
          /\ alerts_file' = <<>>
          /\ result' = "cleared"
          /\ UNCHANGED <<attendance, devices, devOrder>>]_vars

\* C17's case: a list that held alerts has been cleared and the record
\* still has their rows.
C17_Witness ==
    /\ call[1] = "clear_alerts"
    /\ alerts = <<>>
    /\ alerts_file = <<>>
    /\ attendance # <<>>
    /\ \A t \in Threads : ~InCycle(t)

\* C18: an alert is a snapshot.  The alert a step inserts carries the name
\* and the type its device has at that moment, and no step of any
\* operation changes a field of an alert that is in the list: an alert
\* that is in the list before and after a step is the same record.
C18_AlertsAreSnapshots ==
    [][/\ \A k \in 1..Len(alerts), k2 \in 1..Len(alerts') :
            alerts[k].id = alerts'[k2].id => alerts[k] = alerts'[k2]
       /\ Len(alerts') = Len(alerts) + 1 =>
            LET alert == alerts'[1] IN
            /\ alert.device_name = DisplayName(devices[alert.ip])
            /\ alert.device_type = devices[alert.ip].device_type]_vars

\* C18's case: the device of an alert in the list has been renamed and
\* reclassified since, and the alert has the old name and type.
C18_Witness ==
    \E k \in 1..Len(alerts) :
        /\ call[1] = "update_device"
        /\ call[2] = alerts[k].ip
        /\ alerts[k].device_name # devices[alerts[k].ip].custom_name
        /\ alerts[k].device_type # devices[alerts[k].ip].device_type

\* Every alert of the list was recorded after the one that follows it.
NewestFirst(list) ==
    \A k \in 1..(Len(list) - 1) : list[k].id > list[k + 1].id

\* C19: the alert list is ordered newest first in every state, and the
\* step that records an alert puts it at index 0 in front of the alerts
\* that were there, in their order.
C19_NewestFirst ==
    [][/\ NewestFirst(alerts)
       /\ NewestFirst(alerts')
       /\ nRecords' # nRecords =>
            /\ alerts'[1].id = nRecords'
            /\ Tail(alerts') = alerts]_vars

\* C19's case: the two alerts recorded last, the newer first, after an
\* older one was evicted.
C19_Witness ==
    /\ nRecords > AlertCap
    /\ Len(alerts) >= 2
    /\ alerts[1].id = nRecords
    /\ alerts[2].id = nRecords - 1
    /\ alerts[1].ip # alerts[2].ip \/ alerts[1].type # alerts[2].type

\* No scan() call is running (the handlers are single steps).
Quiescent == \A t \in Threads : pc[t] \in {"idle", "loop", "sleep"}

\* C20: whenever no cycle is in progress and no command is executing, the
\* device file holds the in-memory registry and the alerts file the
\* in-memory alert list.
C20_PersistedEqualsMemory ==
    Quiescent =>
       /\ save_file = <<devices, devOrder>>
       /\ alerts_file = alerts

\* The step is not one of thread t.
StepOfAnother(t) == pc'[t] = pc[t] /\ loc'[t] = loc[t]

\* C21: while the scanning flag is set and a thread is inside a Scan Cycle
\* (between the guard of line 1334 and the reset of line 1423), no step of
\* another operation, be it update_device, clear_alerts or the cycle of
\* another thread, changes a device record or the alert list.
C21_SingleWriter ==
    [][\A t \in Threads :
         (scanning /\ InCycle(t) /\ StepOfAnother(t)) =>
            (devices' = devices /\ alerts' = alerts)]_vars

\* The alerts of a list whose timestamp falls on a date, in their order.
OnDate(list, date) ==
    SelectSeq(list, LAMBDA alert : alert.timestamp[1] = date)

\* Every row of a finished export is of an alert of the requested date.
ExportOnlyDate ==
    export.pc = "done" =>
       \A r \in 1..Len(export.rows) : export.rows[r].timestamp[1] = export.date

\* Every alert of the requested date that was in memory when the call
\* began has a row, the alerts of 00:00:00 and 23:59:59 included.
ExportComplete ==
    export.pc = "done" =>
       \A k \in 1..Len(export.first) :
          export.first[k].timestamp[1] = export.date =>
             \E r \in 1..Len(export.rows) : export.rows[r] = export.first[k]

\* No alert has two rows.
ExportNoDuplicate ==
    export.pc = "done" =>
       \A r1, r2 \in 1..Len(export.rows) :
          export.rows[r1].id = export.rows[r2].id => r1 = r2

\* C22: export_attendance(date) returns exactly the in-memory alerts whose
\* timestamp falls on the date: every row is of an alert of that date,
\* every alert of that date that was in memory when the call began has a
\* row, those stamped 00:00:00 and 23:59:59 included, and no alert has
\* more than one row.
C22_ExportExact == ExportOnlyDate /\ ExportComplete /\ ExportNoDuplicate

\* C22 for a call during which no alert is recorded: the rows are the
\* alerts of the date in the list, each once and in the order of the list.
ExportQuiet ==
    (export.pc = "done" /\ export.first = export.list) =>
       export.rows = OnDate(export.first, export.date)

\* The keys of self.devices.
KnownIps(registry) == {h \in Hosts : registry[h].known}

\* C23: the record stored under key k has ip = k; no step of a cycle or of
\* a command removes a record or changes its ip; so the set of known
\* addresses only grows, and the dict keeps each key once, in the order in
\* which the addresses were first stored.
C23_IpPermanent ==
    [][/\ \A k \in KnownIps(devices) : devices[k].ip = k
       /\ \A k \in KnownIps(devices') : devices'[k].ip = k
       /\ KnownIps(devices) \subseteq KnownIps(devices')
       /\ IsPrefix(devOrder, devOrder')
       /\ {devOrder'[n] : n \in 1..Len(devOrder')} = KnownIps(devices')
       /\ Len(devOrder') = Cardinality(KnownIps(devices'))]_vars

\* C23's case: an address that was unknown has answered and got its
\* record, the record has been edited by update_device and seen again by a
\* later cycle, and its ip is its key.
C23_Witness ==
    \E k \in KnownIps(devices) :
        /\ devices[k].first_seen # Earlier
        /\ devices[k].monitored
        /\ devices[k].last_seen > devices[k].first_seen
        /\ devices[k].ip = k
        /\ devOrder = <<1, 2>>

\* The sweep of thread t's cycle is over: every address has been probed.
SweepOver(t) == \A h \in Hosts : hist[t].probed[h] >= 1

\* C24: a cycle records no alert, of any type, before its sweep is over: a
\* thread is inside add_alert, or has recorded an alert in its current
\* cycle, only when the cycle has probed every address.
C24_AlertsAfterSweep ==
    \A t \in Threads :
        (pc[t] \in AddAlertPcs \/ hist[t].emitted # <<>>) => SweepOver(t)

\* C24 for the alerts of the presence pass alone: arrival and departure
\* alerts are recorded after the sweep.
PresenceAlertsAfterSweep ==
    \A t \in Threads :
        (pc[t] \in AddAlertPcs /\ loc[t].alert.type # "distance") =>
           SweepOver(t)

\* C25: a device that was offline at the end of the previous cycle gets no
\* distance alert in the current one, whether or not it has an estimate
\* from an earlier cycle: in a cycle that no other cycle overlaps, no
\* distance alert is recorded for a device whose previous online flag, as
\* the cycle read it, is false.
C25_DistanceOnlyWhenOnline ==
    \A t \in Threads, d \in Hosts :
        (/\ ~hist[t].overlap
         /\ pc[t] \in CyclePcs \cup {"save"}
         /\ ~loc[t].previous_online[d])
        => Count(hist[t].emitted, <<d, "distance">>) = 0

\* C26: the step with which a cycle begins its sweep (lines 1345-1350)
\* stores every device's online flag and estimated distance as they were
\* and leaves every online flag false; and when a cycle that no other
\* cycle overlapped resets the scanning flag (line 1423), a known device is
\* online if and only if its address answered the probe of this cycle.
C26_OnlineIffAnswered ==
    [][\A t \in Threads :
         /\ (pc[t] = "begin" /\ pc'[t] # "begin") =>
               /\ loc'[t].previous_online = [h \in Hosts |-> devices[h].online]
               /\ loc'[t].previous_distances = [h \in Hosts |-> devices[h].dist]
               /\ \A h \in Hosts : ~devices'[h].online
         /\ (pc[t] = "finish" /\ pc'[t] = "save" /\ ~hist[t].overlap) =>
               \A h \in KnownIps(devices') :
                  devices'[h].online <=> h \in hist[t].reach]_vars

\* C26's case: a cycle without overlap is complete in which a device that
\* was online, with an estimate of 316.2 m, did not answer; the cycle has
\* both in its snapshots and the device is offline.
C26_Witness ==
    \E t \in Threads, d \in KnownIps(devices) :
        /\ CycleDone(t)
        /\ loc[t].previous_online[d]
        /\ loc[t].previous_distances[d] = 3162
        /\ d \notin hist[t].reach
        /\ ~devices[d].online

\* The fields of a device record that are set when it is created or by
\* update_device, and by nothing else.
Identity(device) ==
    <<device.ip, device.mac, device.first_seen, device.monitored,
      device.device_type, device.custom_name>>

\* C27: a device record appears only in the step of a cycle whose probe
\* of a then unknown address was answered, with monitored = false,
\* device_type = employee and first_seen set; and no step of a cycle
\* changes the first_seen, the identity (mac, hostname, vendor), monitored,
\* device_type or custom_name of a record that exists.
C27_CreatedOnce ==
    [][\A h \in Hosts :
         /\ (~devices[h].known /\ devices'[h].known) =>
               /\ \E t \in Threads :
                     /\ pc[t] \in {"ping", "create"}
                     /\ loc[t].i = h
                     /\ h \in hist'[t].reach
               /\ ~devices'[h].monitored
               /\ devices'[h].device_type = "employee"
               /\ devices'[h].first_seen # NoTime
         /\ (devices[h].known /\ cmdsLeft' = cmdsLeft) =>
               Identity(devices'[h]) = Identity(devices[h])]_vars

\* C28: a step of a cycle changes nothing but the online flag in the
\* record of a device that has not answered the cycle's probe (last_seen,
\* rssi and the estimated distance stay as they were); and a cycle stores
\* rssi and distance only in its estimation step, which it reaches only
\* from a probe answered while distance mode is active, so that a cycle
\* run with distance mode inactive leaves every rssi and distance as it
\* was.
C28_MissChangesOnlyOnline ==
    [][\A t \in Threads :
         (InCycle(t) /\ ~StepOfAnother(t)) =>
            /\ \A h \in Hosts \ hist'[t].reach :
                  [devices'[h] EXCEPT !.online = devices[h].online] = devices[h]
            /\ pc[t] # "dist" =>
                  \A h \in Hosts :
                     /\ devices'[h].rssi = devices[h].rssi
                     /\ devices'[h].dist = devices[h].dist
            /\ (pc[t] # "dist" /\ pc'[t] = "dist") =>
                  (pc[t] = "ping" /\ distance_mode)]_vars

\* C28's case: a cycle with distance mode active is complete, without
\* overlap, in which a known device that was online did not answer: it is
\* offline and has the last_seen, rssi and distance it had.
C28_Witness ==
    \E t \in Threads, d \in KnownIps(devices) :
        /\ CycleDone(t)
        /\ distance_mode
        /\ loc[t].previous_online[d]
        /\ d \notin hist[t].reach
        /\ ~devices[d].online
        /\ devices[d].last_seen = Earlier
        /\ devices[d].rssi = -70
        /\ devices[d].dist = 3162

\* C29: a cycle records alerts only inside add_alert, which it enters
\* only from the distance branch, taken with monitoring set, or from the
\* presence pass, begun with monitoring set; so a cycle that runs entirely
\* while monitoring is off leaves the alert list and the attendance record
\* as they were.
C29_NoAlertWithoutMonitoring ==
    [][\A t \in Threads :
         (InCycle(t) /\ ~StepOfAnother(t)) =>
            /\ pc[t] \notin AddAlertPcs =>
                  (alerts' = alerts /\ attendance' = attendance)
            /\ (pc[t] \notin AddAlertPcs /\ pc'[t] \in AddAlertPcs) =>
                  (pc[t] \in {"dist", "psm"})
            /\ (pc[t] = "dist" /\ pc'[t] \in AddAlertPcs) => monitoring
            /\ (pc[t] \notin AddAlertPcs \cup {"psm"} /\ pc'[t] = "psm") =>
                  (pc[t] = "post" /\ monitoring)]_vars

\* C29's case: monitoring was never started and a cycle is complete in
\* which a monitored device that was offline at 1.0 m answered and is now
\* online, seen now and in another zone more than 10 m away; no alert and
\* no attendance row was recorded.
C29_Witness ==
    \E t \in Threads, d \in KnownIps(devices) :
        /\ CycleDone(t)
        /\ ~monitoring
        /\ devices[d].monitored
        /\ ~loc[t].previous_online[d]
        /\ loc[t].previous_distances[d] = 10
        /\ devices[d].online
        /\ devices[d].last_seen > Earlier
        /\ devices[d].dist - 10 > 100
        /\ get_zone(devices[d].dist) # get_zone(10)
        /\ hist[t].emitted = <<>>
        /\ alerts = <<>>
        /\ attendance = <<>>

\* The step of thread t stores an estimate for which the distinguished
\* sound is due: monitoring is set, the device is monitored (it has
\* answered: the step is the estimation step), there was a previous
\* estimate, the new one differs from it by more than 10 m and lies in
\* another zone, and it exceeds distanceThreshold.
SoundDue(t) ==
    LET ip == loc[t].i
        prev == loc[t].previous_distances[ip]
        distance == devices'[ip].dist
    IN /\ pc[t] = "dist"
       /\ pc'[t] # "dead"
       /\ monitoring
       /\ devices[ip].monitored
       /\ prev # NoDistance
       /\ Abs(distance - prev) > 100
       /\ get_zone(distance) # get_zone(prev)
       /\ OverThreshold(distance, calibration.thr)

\* Whenever the sound is due the cycle records the distance alert and
\* goes on to the threshold test with the new distance, and the test
\* triggers the sound for a distance over the threshold.
SoundWheneverDueAt(t, prev) ==
    /\ (SoundDue(t) /\ loc[t].previous_distances[loc[t].i] # prev) =>
          /\ pc'[t] = "aa_insert"
          /\ loc'[t].alert.type = "distance"
          /\ loc'[t].ret = "sound"
          /\ loc'[t].distance = devices'[loc[t].i].dist
    /\ (pc[t] = "sound" /\ pc'[t] # "dead"
          /\ OverThreshold(loc[t].distance, calibration.thr)) =>
          loc[t].i \in hist'[t].beeps

\* The sound is triggered only in the threshold test that follows the
\* distance alert of the device, and only for a distance over the
\* threshold.
SoundOnlyWithAlertAt(t) ==
    hist'[t].beeps # hist[t].beeps =>
        /\ pc[t] = "sound"
        /\ hist'[t].beeps = hist[t].beeps \cup {loc[t].i}
        /\ OverThreshold(loc[t].distance, calibration.thr)
        /\ hist[t].emitted # <<>>
        /\ hist[t].emitted[Len(hist[t].emitted)] = <<loc[t].i, "distance">>

\* The sound is never triggered without a distance alert or for a
\* distance that is not over the threshold.
SoundOnlyWithAlert ==
    [][\A t \in Threads :
         (InCycle(t) /\ ~StepOfAnother(t)) => SoundOnlyWithAlertAt(t)]_vars

\* The sound is triggered whenever it is due and the previous estimate is
\* not 0.0 m.
SoundWheneverDueNonZero ==
    [][\A t \in Threads :
         (InCycle(t) /\ ~StepOfAnother(t)) => SoundWheneverDueAt(t, 0)]_vars

\* C30: the low long beep is triggered whenever a reachable monitored
\* device's new distance exceeds distanceThreshold after a change of more
\* than 10 m with a zone change, and never without a distance alert for
\* the device or for a new distance that is not over the threshold.
C30_ThresholdSound ==
    [][\A t \in Threads :
         (InCycle(t) /\ ~StepOfAnother(t)) =>
            (SoundWheneverDueAt(t, NoDistance) /\ SoundOnlyWithAlertAt(t))]_vars

\* The bucket the average latency lat (tenths of a millisecond) is in.
Bucket(lat) ==
    IF lat < 20 THEN -40
    ELSE IF lat < 50 THEN -50
    ELSE IF lat < 100 THEN -60
    ELSE IF lat < 200 THEN -70
    ELSE IF lat < 500 THEN -80
    ELSE -90

\* The average latency the summary of the probe shows: the third value of
\* a Windows summary, the second of the four values of the others.
Probed(run) ==
    IF run.stdout[1] = Lit("Minimum = ")
    THEN run.stdout[8].num
    ELSE run.stdout[7].num

\* ping_with_stats was called for platform p.
PingCalled(p) == call[1] = "ping_with_stats" /\ call[2] = p

\* On Windows the result is the bucket of the average latency, or -70
\* without a usable sample.
ProbeBucketsWindows ==
    PingCalled("Windows") =>
        result = (IF call[3].outcome = "ok"
                  THEN Bucket(call[3].stdout[8].num) ELSE -70)

\* C31: ping_with_stats returns the bucket of the probe's average latency
\* (-40 under 2 ms, -50 under 5, -60 under 10, -70 under 20, -80 under
\* 50, else -90), and -70 when the command fails or raises.
C31_LatencyBuckets ==
    call[1] = "ping_with_stats" =>
        result = (IF call[3].outcome = "ok"
                  THEN Bucket(Probed(call[3])) ELSE -70)

\* C32: calculate_distance gives no distance (and not 0.0) for an rssi
\* that is 0 or absent, whatever the calibration; get_zone gives "unknown"
\* for no distance; and the estimation step of a cycle records no distance
\* alert for a device whose previous or new distance is absent, so that a
\* cycle holds no distance alert for a device without a previous estimate.
C32_UndefinedDistance ==
    [][/\ calculate_distance(calibration, NoRssi) = NoDistance
       /\ get_zone(NoDistance) = "unknown"
       /\ \A t \in Threads :
            (InCycle(t) /\ ~StepOfAnother(t)) =>
               /\ (/\ pc[t] = "dist"
                   /\ \/ loc[t].previous_distances[loc[t].i] = NoDistance
                      \/ devices'[loc[t].i].dist = NoDistance) =>
                     (pc'[t] \notin AddAlertPcs /\ hist'[t].emitted = hist[t].emitted)
               /\ \A d \in Hosts :
                     loc'[t].previous_distances[d] = NoDistance =>
                        Count(hist'[t].emitted, <<d, "distance">>) = 0]_vars

\* C32's case: with monitoring set, a cycle has estimated 316.2 m (zone
\* away) for a device that had no estimate before, and is complete without
\* a distance alert for it.
C32_Witness ==
    \E t \in Threads, d \in KnownIps(devices) :
        /\ CycleDone(t)
        /\ d \in hist[t].estimated
        /\ loc[t].previous_distances[d] = NoDistance
        /\ devices[d].dist = 3162
        /\ get_zone(devices[d].dist) = "away"
        /\ Count(hist[t].emitted, <<d, "distance">>) = 0

\* 10 to the power n, for the exponents of the default calibration.
TenTo(n) == IF n = 0 THEN 1 ELSE IF n = 1 THEN 10 ELSE IF n = 2 THEN 100
            ELSE IF n = 3 THEN 1000 ELSE IF n = 4 THEN 10000 ELSE 100000

\* d tenths of a meter is 10^(n/2) meters rounded to one decimal: the
\* square of 10^(n/2) is 10^n, so d - 0.5 <= 10 * 10^(n/2) < d + 0.5 is
\* (2d - 1)^2 <= 400 * 10^n < (2d + 1)^2.
IsRoundedPower(d, n) ==
    /\ (2 * d - 1) * (2 * d - 1) <= 400 * TenTo(n)
    /\ 400 * TenTo(n) < (2 * d + 1) * (2 * d + 1)

\* calculate_distance was called with the default calibration and rssi.
DefaultCalled(rssi) ==
    call = <<"calculate_distance", DefaultCalibration, rssi>>

\* C33: with the default calibration calculate_distance(-60) is exactly
\* 10.0 m, and for each of the six bucket values the result is
\* 10^((referenceRSSI - rssi) / (10 * pathLossExponent)), which is
\* 10^((-40 - rssi) / 20), rounded to one decimal.
C33_DefaultFormula ==
    \A rssi \in RssiBuckets :
        DefaultCalled(rssi) =>
            /\ IsRoundedPower(result, (-40 - rssi) \div 10)
            /\ rssi = -60 => result = 100

\* C33's case: calculate_distance(-60) has returned 10.0 m under the
\* default calibration.
C33_Witness == DefaultCalled(-60) /\ result = 100

\* The zone names get_zone returns.
ZoneNames == {"unknown", "on-site", "near-site", "leaving", "away"}

\* The zone of a distance given in whole meters, as a message shows it.
ZoneOfMeters(meters) ==
    IF meters < 10 THEN "on-site"
    ELSE IF meters < 30 THEN "near-site"
    ELSE IF meters < 50 THEN "leaving"
    ELSE "away"

\* The message names a previous zone and distance and a new zone and
\* distance that agree with each other.
NamesZonesAndDistances(message) ==
    /\ Len(message) = 9
    /\ message[3] \in ZoneNames /\ message[5] \in ZoneNames
    /\ message[6] \in Nat /\ message[8] \in Nat
    /\ message[3] = ZoneOfMeters(message[6])
    /\ message[5] = ZoneOfMeters(message[8])

\* An alert as the claim has it.
WellFormedAlert(alert) ==
    /\ alert.type \in AlertTypes
    /\ alert.type = "distance" => NamesZonesAndDistances(alert.message)
    /\ alert.type \in {"arrival", "departure"} => alert.message = <<>>

\* C34: every alert of the in-memory list, of the attendance record and
\* of the saved alert list is an arrival, a departure or a distance alert;
\* a distance alert has a message that names the previous zone, the new
\* zone and both distances, and an arrival or departure has no message.
C34_AlertShape ==
    /\ \A k \in 1..Len(alerts) : WellFormedAlert(alerts[k])
    /\ \A k \in 1..Len(attendance) : WellFormedAlert(attendance[k])
    /\ \A k \in 1..Len(alerts_file) : WellFormedAlert(alerts_file[k])

\* C34's case: the list holds an arrival without a message, and under it
\* a distance alert whose message says on-site to away, 1 m to 316 m.
C34_Witness ==
    /\ Len(alerts) = 2
    /\ alerts[1].type = "arrival" /\ alerts[1].message = <<>>
    /\ alerts[2].type = "distance"
    /\ alerts[2].message[3] = "on-site" /\ alerts[2].message[5] = "away"
    /\ alerts[2].message[6] = 1 /\ alerts[2].message[8] = 316
    /\ attendance = <<alerts[2], alerts[1]>>

\* Some thread has died of an uncaught exception.
SomeThreadDead == \E t \in Threads : pc[t] = "dead"

\* The flag is eventually cleared unless a thread dies.
FlagClearedUnlessDead == scanning ~> (~scanning \/ SomeThreadDead)

\* Once the flag is set and no thread is inside a cycle (the thread that
\* set it has died), no step clears it, however many scans are requested.
StuckFlagStaysSet ==
    [][(scanning /\ \A t \in Threads : ~InCycle(t)) => scanning']_vars

\* C35: whenever the scanning flag is set it is eventually cleared, also
\* when save_data or log_attendance fails inside add_alert.
C35_FlagEventuallyCleared == scanning ~> ~scanning

\* The transition of device d that the cycle of thread t has seen: its
\* online flag in the snapshot against whether it answered the probe.
SeenTransition(t, d) ==
    PresenceTransition(loc[t].previous_online[d], d \in hist[t].reach)

\* An arrival is recorded only by a cycle whose snapshot has the device
\* offline, and a departure only by one whose snapshot has it online.
AlertNeedsSnapshot ==
    \A t \in Threads, d \in Hosts :
        /\ Count(hist[t].emitted, <<d, "arrival">>) > 0 =>
              ~loc[t].previous_online[d]
        /\ Count(hist[t].emitted, <<d, "departure">>) > 0 =>
              loc[t].previous_online[d]

\* A cycle of a monitor loop that no stop_monitoring call has found alive
\* (monitoring has been on since the loop was started) records the
\* transitions it has seen.
TransitionRecordedWhileOn ==
    \A t \in Threads, d \in KnownIps(devices) :
        (/\ CycleDone(t)
         /\ kind[t] = "loop" /\ ~hist[t].stopped /\ monitoring
         /\ devices[d].monitored
         /\ SeenTransition(t, d) # "none")
            => Count(hist[t].emitted, <<d, SeenTransition(t, d)>>) = 1

\* C36: a cycle that began with monitoring on, and during whose sweep or
\* presence pass stop_monitoring was called, has recorded at its end the
\* arrival or departure of every monitored device whose online flag the
\* sweep has changed.
C36_NoTransitionLost ==
    \A t \in Threads, d \in KnownIps(devices) :
        (/\ CycleDone(t)
         /\ hist[t].stopAt # "none"
         /\ devices[d].monitored
         /\ SeenTransition(t, d) # "none")
            => Count(hist[t].emitted, <<d, SeenTransition(t, d)>>) = 1

\* The arrival and departure rows of device d in the attendance record,
\* oldest first.
PresenceRows(d) ==
    SelectSeq(attendance,
              LAMBDA row : row.ip = d /\ row.type \in {"arrival", "departure"})

\* C37: with monitoring on throughout, the device monitored throughout and
\* cycles that do not overlap, the arrival and departure rows of a device
\* alternate in the attendance record: no two consecutive ones have the
\* same type.
C37_ArrivalsAndDeparturesAlternate ==
    \A d \in Hosts :
        \A k \in 1..(Len(PresenceRows(d)) - 1) :
            PresenceRows(d)[k].type # PresenceRows(d)[k + 1].type

\* C37's case: four cycles have recorded a departure, an arrival, a
\* departure and an arrival of the same device.
C37_Witness ==
    \E d \in Hosts :
        /\ devices[d].monitored
        /\ monitoring
        /\ Len(PresenceRows(d)) = 4
        /\ PresenceRows(d)[1].type = "departure"
        /\ PresenceRows(d)[2].type = "arrival"
        /\ PresenceRows(d)[3].type = "departure"
        /\ PresenceRows(d)[4].type = "arrival"

\* The alerts of a list, as a set.
Entries(list) == {list[k] : k \in 1..Len(list)}

\* The alerts that a step puts into the list.
Entered == Entries(alerts') \ Entries(alerts)

\* Outside the assignment of line 1444 the only alert a step puts into the
\* list is the one add_alert records in that step.
OnlyAssignBringsBack ==
    [][(\A t \in Threads : pc[t] = "aa_assign" => pc'[t] = "aa_assign") =>
          \A alert \in Entered :
              nRecords' = nRecords + 1 /\ alert.id = nRecords']_vars

\* C38: no step brings an alert back into the in-memory list: the only
\* alert a step puts into the list is the one add_alert records in that
\* step, so that after a clear_alerts the list holds nothing but alerts
\* recorded after it.
C38_ClearedStaysCleared ==
    [][\A alert \in Entered :
          nRecords' = nRecords + 1 /\ alert.id = nRecords']_vars

\* The cycle of thread t is complete and no other thread has run a cycle
\* since the program started: what the registry holds is what the program
\* loaded and what this cycle did.
OnlyCycle(t) ==
    /\ CycleDone(t)
    /\ \A u \in Threads \ {t} :
          pc[u] \notin CyclePcs \cup {"save", "dead"} /\ hist[u].last # "ran"

\* The devices that had no estimate when the cycle of thread t began and
\* have one now.
Refreshed(t) ==
    {d \in Hosts : /\ loc[t].previous_distances[d] = NoDistance
                   /\ devices[d].dist # NoDistance}

\* A cycle during which no request was served refreshes every device
\* that answered, or none.
ModeConstantWithoutRequest ==
    \A t \in Threads :
        (OnlyCycle(t) /\ scansLeft = ModeScans - 1 /\ cmdsLeft = ModeCmds)
            => Refreshed(t) \in {{}, hist[t].reach}

\* C39: after a cycle either every device that answered its probe has had
\* rssi and estimated_distance refreshed by the cycle, or none has.
C39_ModeConstantInCycle ==
    \A t \in Threads :
        OnlyCycle(t) => Refreshed(t) \in {{}, hist[t].reach}

====
